---------------------------- MODULE Spec2Model ----------------------------
(***************************************************************************)
(* Idempotency persistence on a Redis-like store:                          *)
(* RedisCachePersistenceLayer of                                           *)
(* aws_lambda_powertools/utilities/idempotency/persistence/redis.py.       *)
(*                                                                         *)
(* The store is one map from key names to (value, expiry instant).  Every  *)
(* store command (SET [NX] EX, GET, DEL) is one atomic step; a             *)
(* save_in_progress call is the sequence of commands the code issues, and  *)
(* other callers and the clock may act between two of them.                *)
(*                                                                         *)
(* Time is a clock in milliseconds.  Python's None is the empty tuple <<>> *)
(* and a present optional value v is <<v>>.                                *)
(***************************************************************************)
EXTENDS Integers, Sequences, FiniteSets, TLC

VARIABLES
    now,        \* wall clock, unix milliseconds
    redis,      \* the external store: key name -> [present, val, exp]
    inv,        \* per caller: position in its invocation and its locals
    cfg,        \* the persistence layer's configuration
    hist,       \* history of the store commands applied (observation only)
    metrics     \* the metrics utility: its process-wide flag and one metrics object

vars == <<now, redis, inv, cfg, hist, metrics>>

----------------------------------------------------------------------------
(* Bounds of the model *)

NumCallers == 2
MaxTimeSec == 2
MaxSaves == 3
MaxForeign == 1

(* Program constants *)

OrphanLockSeconds == 10

(* Inputs *)

Callers == 1..NumCallers
Keys == {"order-1"}
Hashes == {"h1", "h2"}
Responses == {"r1", "r2"}
MsPerSec == 1000
TickMs == MsPerSec
\* remaining_time_in_millis of the invocation: None, or a lease length
RemainingMs == {<<>>, <<MsPerSec>>}
\* expires_after_seconds the layer may be configured with
ExpiryWindows == {2}

\* the exception of the client library that a failed command raises; the
\* layer lets it pass as it is (except ...: raise e, or no handler at all)
RedisError == "redis.exceptions.RedisError"

STATUS_INPROGRESS == "INPROGRESS"
STATUS_COMPLETED == "COMPLETED"
STATUS_EXPIRED == "EXPIRED"

\* default attribute names of the stored mapping
status_attr == "status"
expiry_attr == "expiration"
in_progress_expiry_attr == "in_progress_expiration"
data_attr == "data"
validation_key_attr == "validation"

----------------------------------------------------------------------------
(* Helpers for Python values *)

Min(a, b) == IF a < b THEN a ELSE b

\* int(datetime.now().timestamp())
NowSeconds(t) == t \div MsPerSec

\* int(now.timestamp() * 1000)
NowMillis(t) == t

\* str(x) of an optional string: str(None) is the text "None"
PyStr(opt) == IF opt = <<>> THEN "None" ELSE opt[1]

\* dict.get(name): None when the name is missing
DictGet(m, name) == IF name \in DOMAIN m THEN <<m[name]>> ELSE <<>>

EmptyMap == [a \in {} |-> 0]

\* json.dumps of a mapping, and the text the lock key holds
JsonDumps(m) == [txt |-> "object", obj |-> m]
LockText == [txt |-> "True", obj |-> EmptyMap]

\* texts that were not written by json.dumps of a mapping: no JSON at all,
\* a JSON array, and the empty text
NotJsonText == [txt |-> "not json", obj |-> EmptyMap]
JsonArrayText == [txt |-> "[]", obj |-> EmptyMap]
EmptyText == [txt |-> "", obj |-> EmptyMap]

\* json.loads(text): a dict, a list, or JSONDecodeError
JsonLoads(text) ==
    IF text.txt = "object" THEN "dict"
    ELSE IF text.txt = "[]" THEN "list"
    ELSE "JSONDecodeError"

----------------------------------------------------------------------------
(* The store: SET name value EX ttl [NX], GET name, DEL name *)

NoEntry == [present |-> FALSE, val |-> LockText, exp |-> 0]

\* a lock name that does not depend on the key
LockName_Shared(name) == "idempotency:lock"

LockName(name) == name \o ":lock"

StoreNames == Keys \cup {LockName(k) : k \in Keys}

\* client.set(name, value, ex=ttl, nx=...): the new store and the reply
RedisSet(store, t, name, value, ttl, nx) ==
    IF nx /\ store[name].present
    THEN [store |-> store, reply |-> FALSE]
    ELSE [store |-> [store EXCEPT ![name] =
                        [present |-> TRUE, val |-> value, exp |-> t + ttl * MsPerSec]],
          reply |-> TRUE]

\* client.get(name): None when the key is missing
RedisGet(store, name) ==
    IF store[name].present THEN <<store[name].val>> ELSE <<>>

\* a delete that leaves the key in place
RedisDelete_Kept(store, name) == store

\* a delete that also releases the lock of the key
RedisDelete_WithLock(store, name) ==
    [n \in DOMAIN store |-> IF n \in {name, LockName(name)} THEN NoEntry ELSE store[n]]

\* client.delete(name)

RedisDelete(store, name) == [store EXCEPT ![name] = NoEntry]

\* a SET without EX by another program: the key has no TTL (exp 0)
ForeignSet(store, name, value) ==
    [store EXCEPT ![name] = [present |-> TRUE, val |-> value, exp |-> 0]]

\* keys whose TTL has run out at instant t are gone
Purge(store, t) ==
    [n \in DOMAIN store |->
        IF store[n].present /\ store[n].exp > 0 /\ store[n].exp <= t
        THEN NoEntry ELSE store[n]]

----------------------------------------------------------------------------
(* DataRecord and (de)serialization *)

DataRecord(key, status, expiry, in_progress_expiry, response_data, payload_hash) ==
    [idempotency_key |-> key,
     status |-> status,
     expiry_timestamp |-> expiry,
     in_progress_expiry_timestamp |-> in_progress_expiry,
     response_data |-> response_data,
     payload_hash |-> payload_hash]

NoRecord == DataRecord("", "", <<>>, <<>>, "", "")

\* DataRecord.is_expired: the expiry timestamp is set and lies in the past
IsExpired(rec, t) ==
    /\ rec.expiry_timestamp # <<>>
    /\ NowSeconds(t) > rec.expiry_timestamp[1]

\* DataRecord.status: a record past its expiry is EXPIRED whatever it stores
Status(rec, t) == IF IsExpired(rec, t) THEN STATUS_EXPIRED ELSE rec.status

\* a TTL that is the expiry timestamp itself, not what is left until then
GetExpirySecond_Absolute(expiry_timestamp, t, expires_after_seconds) ==
    IF expiry_timestamp # <<>> /\ expiry_timestamp[1] # 0
    THEN expiry_timestamp[1]
    ELSE expires_after_seconds

\* _get_expiry_second
GetExpirySecond(expiry_timestamp, t, expires_after_seconds) ==
    IF expiry_timestamp # <<>> /\ expiry_timestamp[1] # 0
    THEN expiry_timestamp[1] - NowSeconds(t)
    ELSE expires_after_seconds

\* _item_to_data_record; a mapping without the status attribute raises KeyError
ItemToDataRecord(key, item) ==
    IF status_attr \notin DOMAIN item
    THEN [kind |-> "KeyError", rec |-> NoRecord]
    ELSE [kind |-> "Record",
          rec |-> DataRecord(key,
                             item[status_attr],
                             DictGet(item, "expiration"),
                             DictGet(item, in_progress_expiry_attr),
                             PyStr(DictGet(item, data_attr)),
                             PyStr(DictGet(item, validation_key_attr)))]

\* a read without the check for a missing key: json.loads fails on the reply
GetRecordFromStore_NoCheck(store, key) ==
    LET response == RedisGet(store, key) IN
    IF response = <<>> \/ response[1].txt # "object"
    THEN [kind |-> "OrphanRecord", rec |-> NoRecord]
    ELSE ItemToDataRecord(key, response[1].obj)

\* a read with the check for a missing key inverted
GetRecordFromStore_Inverted(store, key) ==
    LET response == RedisGet(store, key) IN
    IF response # <<>>
    THEN [kind |-> "ItemNotFound", rec |-> NoRecord]
    ELSE [kind |-> "OrphanRecord", rec |-> NoRecord]

\* _get_record: GET, then json.loads, then _item_to_data_record (whose
\* item.get raises AttributeError on a value that is not a dict)
GetRecordFromStore(store, key) ==
    LET response == RedisGet(store, key) IN
    IF response = <<>> \/ response[1].txt = ""
    THEN [kind |-> "ItemNotFound", rec |-> NoRecord]
    ELSE IF JsonLoads(response[1]) = "JSONDecodeError"
    THEN [kind |-> "OrphanRecord", rec |-> NoRecord]
    ELSE IF JsonLoads(response[1]) = "list"
    THEN [kind |-> "AttributeError", rec |-> NoRecord]
    ELSE ItemToDataRecord(key, response[1].obj)

\* the mapping _put_in_progress_record serializes
InProgressMapping(rec, validation) ==
    LET base == (status_attr :> rec.status) @@ (expiry_attr :> rec.expiry_timestamp[1])
        lease == IF rec.in_progress_expiry_timestamp # <<>>
                 THEN (in_progress_expiry_attr :> rec.in_progress_expiry_timestamp[1])
                 ELSE EmptyMap
        hash == IF validation THEN (validation_key_attr :> rec.payload_hash) ELSE EmptyMap
    IN base @@ lease @@ hash

\* the mapping _update_record serializes
CompletedMapping(rec) ==
    (data_attr :> rec.response_data) @@ (status_attr :> rec.status)
        @@ (expiry_attr :> rec.expiry_timestamp[1])

\* BasePersistenceLayer._validate_payload
ValidatePayload(validation, hash, rec) == ~validation \/ rec.payload_hash = hash

\* BasePersistenceLayer._get_hashed_payload
HashedPayload(validation, hash) == IF validation THEN hash ELSE ""

\* a classification that never looks at the deadline of an IN_PROGRESS record
Classify_NoDeadline(rec, t, tnow) ==
    IF Status(rec, tnow) = STATUS_COMPLETED /\ ~IsExpired(rec, tnow)
    THEN "ItemAlreadyExists"
    ELSE "OrphanRecord"

\* a classification that takes a deadline equal to the time read for live
Classify_NotStrict(rec, t, tnow) ==
    IF Status(rec, tnow) = STATUS_COMPLETED /\ ~IsExpired(rec, tnow)
    THEN "ItemAlreadyExists"
    ELSE IF /\ Status(rec, tnow) = STATUS_INPROGRESS
            /\ rec.in_progress_expiry_timestamp # <<>>
            /\ rec.in_progress_expiry_timestamp[1] # 0
            /\ rec.in_progress_expiry_timestamp[1] >= NowMillis(t)
    THEN "ItemAlreadyExists"
    ELSE "OrphanRecord"

\* a classification that takes an IN_PROGRESS record without a deadline for
\* a live invocation
Classify_NoneIsLive(rec, t, tnow) ==
    IF Status(rec, tnow) = STATUS_COMPLETED /\ ~IsExpired(rec, tnow)
    THEN "ItemAlreadyExists"
    ELSE IF /\ Status(rec, tnow) = STATUS_INPROGRESS
            /\ \/ rec.in_progress_expiry_timestamp = <<>>
               \/ rec.in_progress_expiry_timestamp[1] = 0
               \/ rec.in_progress_expiry_timestamp[1] > NowMillis(t)
    THEN "ItemAlreadyExists"
    ELSE "OrphanRecord"

\* the classification of an existing record in _put_in_progress_record,
\* with t the time read at the start of the call and tnow the time of the read
Classify(rec, t, tnow) ==
    IF Status(rec, tnow) = STATUS_COMPLETED /\ ~IsExpired(rec, tnow)
    THEN "ItemAlreadyExists"
    ELSE IF /\ Status(rec, tnow) = STATUS_INPROGRESS
            /\ rec.in_progress_expiry_timestamp # <<>>
            /\ rec.in_progress_expiry_timestamp[1] # 0
            /\ rec.in_progress_expiry_timestamp[1] > NowMillis(t)
    THEN "ItemAlreadyExists"
    ELSE "OrphanRecord"

----------------------------------------------------------------------------
(* State *)

\* cmds: the store commands the caller's current save_in_progress has issued
IdleInv == [pc |-> "idle", key |-> "", now |-> 0, item |-> EmptyMap, ttl |-> 0,
            lease |-> <<>>, hash |-> "", cmds |-> 0]

\* How the latest step ended the call it belongs to (op "none": no call ended).
\* via: how a save ended ("create", "recover", "live", "lock"); hash: the payload
\* hash of the call; prev: the last write on the key before the call's step;
\* cmds: the store commands a save issued, the one of its last step included.
Ended(op, res, key) ==
    [op |-> op, res |-> res, key |-> key, via |-> "none", hash |-> "", prev |-> "none",
     cmds |-> 0]
NotEnded == Ended("none", "none", "")

\* no metrics object is in use
NoMetrics == [kind |-> "none"]

NoHistory ==
    [last |-> NotEnded,
     lastWrite |-> [k \in Keys |-> "none"],
     completed |-> [k \in Keys |-> <<>>],
     saves |-> 0,
     open |-> TRUE,
     wins |-> 0,
     stray |-> FALSE,
     lost |-> 0,
     foreign |-> 0,
     owner |-> [k \in Keys |-> 0],
     fresh |-> {},
     rivals |-> {},
     recovered |-> [k \in Keys |-> 0]]

\* a lock TTL that ignores the expiry window
OrphanLockTimeout_Fixed(expires_after_seconds) == OrphanLockSeconds

\* RedisCachePersistenceLayer.__init__: the TTL of the orphan-recovery lock
OrphanLockTimeout(expires_after_seconds) == Min(OrphanLockSeconds, expires_after_seconds)

\* RedisCachePersistenceLayer.__init__ and BasePersistenceLayer.configure
InitWith(validation) ==
    /\ now = 0
    /\ redis = [n \in StoreNames |-> NoEntry]
    /\ inv = [c \in Callers |-> IdleInv]
    /\ \E w \in ExpiryWindows :
          cfg = [expires_after_seconds |-> w,
                 orphan_lock_timeout |-> OrphanLockTimeout(w),
                 payload_validation_enabled |-> validation]
    /\ hist = NoHistory
    /\ metrics = NoMetrics

Init == InitWith(FALSE)

InitValidation == InitWith(TRUE)

\* the last successful write command on key k; a write on the key ends a run
\* of lock-contention failures
Wrote(h, k, what) == [h EXCEPT !.lastWrite[k] = what, !.lost = 0, !.fresh = {}]

\* a delete, a completion, an expiry or a death ends a round of first calls
Closed(h) == [h EXCEPT !.open = FALSE]

\* within a round: count the calls that succeeded (up to 2) and note a call
\* that ended neither in success nor in ItemAlreadyExists nor in a transport error
Raced(h, res) ==
    IF ~h.open THEN h
    ELSE IF res = "Success" THEN [h EXCEPT !.wins = Min(2, h.wins + 1)]
    ELSE IF res \in {"ItemAlreadyExists", RedisError} THEN h
    ELSE [h EXCEPT !.stray = TRUE]

\* caller c failed on a held lock; it fails "again" when it was also the last
\* one to fail on it and since then the key was not written and the lock was
\* neither taken nor dropped
Contended(h, c) == [h EXCEPT !.lost = c]
ContendedVia(h, c) == IF h.lost = c THEN "lockAgain" ELSE "lock"

\* a new round of concurrent first calls starts when no record is stored
\* and no call is under way
Observe(h, last, store, invs) ==
    LET h1 == [h EXCEPT !.last = last] IN
    IF (\A k \in Keys : ~store[k].present) /\ (\A c \in Callers : invs[c].pc = "idle")
    THEN [h1 EXCEPT !.open = TRUE, !.wins = 0, !.stray = FALSE]
    ELSE h1

----------------------------------------------------------------------------
(* save_in_progress: BasePersistenceLayer.save_inprogress, then             *)
(* _put_in_progress_record up to the conditional create                     *)

NewInProgressRecord(k, payload_hash, rem, t) ==
    DataRecord(k, STATUS_INPROGRESS,
               <<NowSeconds(t) + cfg.expires_after_seconds>>,
               IF rem = <<>> THEN <<>> ELSE <<NowMillis(t) + rem[1]>>,
               "",
               payload_hash)

\* the call ends with an error: the caller is idle again, nothing is written
Failed(c, k, res, via, h) ==
    /\ inv' = [inv EXCEPT ![c] = IdleInv]
    /\ redis' = redis
    /\ hist' = Observe([Raced(h, res) EXCEPT !.fresh = @ \ {c}, !.rivals = @ \ {c}],
                       [Ended("save", res, k) EXCEPT !.via = via,
                                                     !.cmds = inv[c].cmds + 1],
                       redis', inv')

\* caller c owns key k from the moment its save_in_progress returns.  When it
\* returns through the recovery path, the callers that detected the same orphan
\* (fresh: their read is of the value c replaces) become its rivals; a rival
\* that succeeds too, before the next expiry of the lock, is the second success
\* on one orphan
Owned(h, c, k, via, fresh) ==
    IF via # "recover" THEN [h EXCEPT !.owner[k] = c]
    ELSE IF c \in h.rivals
    THEN [h EXCEPT !.owner[k] = c, !.recovered[k] = 2]
    ELSE [h EXCEPT !.owner[k] = c,
                   !.recovered[k] = Min(2, IF @ = 0 THEN 1 ELSE @),
                   !.rivals = IF c \in fresh THEN fresh \ {c} ELSE {}]

\* the call returns: the caller runs the wrapped function
Succeeded(c, mine, store, via, h) ==
    /\ redis' = store
    /\ inv' = [inv EXCEPT ![c] = [mine EXCEPT !.pc = "running", !.now = 0,
                                              !.item = EmptyMap, !.ttl = 0,
                                              !.cmds = 0]]
    /\ hist' = Observe(Raced(Owned(Wrote(h, mine.key, via), c, mine.key, via, h.fresh),
                             "Success"),
                       [Ended("save", "Success", mine.key) EXCEPT
                            !.via = via, !.hash = mine.hash,
                            !.prev = hist.lastWrite[mine.key],
                            !.cmds = inv[c].cmds + 1],
                       redis', inv')

SaveInProgress(c, k, h, rem, ok) ==
    /\ inv[c].pc = "idle"
    /\ LET rec == NewInProgressRecord(k, HashedPayload(cfg.payload_validation_enabled, h),
                                      rem, now)
           item == InProgressMapping(rec, cfg.payload_validation_enabled)
           ttl == GetExpirySecond(<<item[expiry_attr]>>, now, cfg.expires_after_seconds)
           set == RedisSet(redis, now, k, JsonDumps(item), ttl, TRUE)
           mine == [IdleInv EXCEPT !.key = k, !.hash = rec.payload_hash,
                                   !.lease = rec.in_progress_expiry_timestamp]
       IN
       IF ~ok
       THEN Failed(c, k, RedisError, "none", hist)
       ELSE IF set.reply
       THEN /\ hist.saves < MaxSaves
            /\ Succeeded(c, mine, set.store, "create",
                         [hist EXCEPT !.saves = hist.saves + 1])
       ELSE /\ redis' = redis
            /\ inv' = [inv EXCEPT ![c] =
                          [mine EXCEPT !.pc = "get", !.now = now, !.item = item, !.ttl = ttl,
                                       !.cmds = 1]]
            /\ hist' = Observe(hist, NotEnded, redis', inv')
    /\ UNCHANGED <<now, cfg, metrics>>

\* a read whose orphan classification is not caught
ReadExisting_Uncaught(c, ok) ==
    /\ inv[c].pc = "get"
    /\ LET got == GetRecordFromStore(redis, inv[c].key)
           outcome == IF ~ok THEN RedisError
                      ELSE IF got.kind = "Record"
                      THEN Classify(got.rec, inv[c].now, now)
                      ELSE got.kind
       IN
       Failed(c, inv[c].key, outcome,
              IF outcome = "ItemAlreadyExists" THEN "live" ELSE "none", hist)
    /\ UNCHANGED <<now, cfg, metrics>>

\* a read that is issued again when the connection fails
ReadExisting_Retry(c, ok) ==
    /\ inv[c].pc = "get"
    /\ LET got == GetRecordFromStore(redis, inv[c].key)
           outcome == IF ~ok THEN RedisError
                      ELSE IF got.kind = "Record"
                      THEN Classify(got.rec, inv[c].now, now)
                      ELSE got.kind
       IN
       IF outcome = "OrphanRecord"
       THEN /\ inv' = [inv EXCEPT ![c].pc = "lock", ![c].cmds = @ + 1]
            /\ redis' = redis
            /\ hist' = Observe([hist EXCEPT !.fresh = @ \cup {c}], NotEnded, redis', inv')
       ELSE IF outcome = RedisError /\ inv[c].cmds < 3
       THEN /\ inv' = [inv EXCEPT ![c].cmds = @ + 1]
            /\ redis' = redis
            /\ hist' = Observe(hist, NotEnded, redis', inv')
       ELSE Failed(c, inv[c].key, outcome,
                   IF outcome = "ItemAlreadyExists" THEN "live" ELSE "none", hist)
    /\ UNCHANGED <<now, cfg, metrics>>

\* _put_in_progress_record: the read of the existing record and its classification
ReadExisting(c, ok) ==
    /\ inv[c].pc = "get"
    /\ LET got == GetRecordFromStore(redis, inv[c].key)
           outcome == IF ~ok THEN RedisError
                      ELSE IF got.kind = "Record"
                      THEN Classify(got.rec, inv[c].now, now)
                      ELSE got.kind
       IN
       IF outcome = "OrphanRecord"
       THEN /\ inv' = [inv EXCEPT ![c].pc = "lock", ![c].cmds = @ + 1]
            /\ redis' = redis
            /\ hist' = Observe([hist EXCEPT !.fresh = @ \cup {c}], NotEnded, redis', inv')
       ELSE Failed(c, inv[c].key, outcome,
                   IF outcome = "ItemAlreadyExists" THEN "live" ELSE "none", hist)
    /\ UNCHANGED <<now, cfg, metrics>>

\* a lock step that does not look at the reply of the conditional SET
AcquireLock_Unchecked(c, ok) ==
    /\ inv[c].pc = "lock"
    /\ hist.saves < MaxSaves
    /\ redis' = RedisSet(redis, now, LockName(inv[c].key), LockText,
                         cfg.orphan_lock_timeout, TRUE).store
    /\ inv' = [inv EXCEPT ![c].pc = "set", ![c].cmds = @ + 1]
    /\ hist' = Observe([hist EXCEPT !.saves = hist.saves + 1, !.lost = 0],
                       NotEnded, redis', inv')
    /\ UNCHANGED <<now, cfg, metrics>>

\* a lock step that reports contention with an error kind of its own
AcquireLock_OwnError(c, ok) ==
    /\ inv[c].pc = "lock"
    /\ LET set == RedisSet(redis, now, LockName(inv[c].key), LockText,
                           cfg.orphan_lock_timeout, TRUE)
       IN
       IF ~ok
       THEN Failed(c, inv[c].key, RedisError, "none", hist)
       ELSE IF set.reply
       THEN /\ hist.saves < MaxSaves
            /\ redis' = set.store
            /\ inv' = [inv EXCEPT ![c].pc = "set", ![c].cmds = @ + 1]
            /\ hist' = Observe([hist EXCEPT !.saves = hist.saves + 1, !.lost = 0],
                               NotEnded, redis', inv')
       ELSE Failed(c, inv[c].key, "LockNotAcquired", ContendedVia(hist, c), Contended(hist, c))
    /\ UNCHANGED <<now, cfg, metrics>>

\* _acquire_lock
AcquireLock(c, ok) ==
    /\ inv[c].pc = "lock"
    /\ LET set == RedisSet(redis, now, LockName(inv[c].key), LockText,
                           cfg.orphan_lock_timeout, TRUE)
       IN
       IF ~ok
       THEN Failed(c, inv[c].key, RedisError, "none", hist)
       ELSE IF set.reply
       THEN /\ hist.saves < MaxSaves
            /\ redis' = set.store
            /\ inv' = [inv EXCEPT ![c].pc = "set", ![c].cmds = @ + 1]
            /\ hist' = Observe([hist EXCEPT !.saves = hist.saves + 1, !.lost = 0],
                               NotEnded, redis', inv')
       ELSE Failed(c, inv[c].key, "ItemAlreadyExists", ContendedVia(hist, c), Contended(hist, c))
    /\ UNCHANGED <<now, cfg, metrics>>

\* an overwrite that keeps the NX condition of the first SET
OverwriteOrphan_Conditional(c, ok) ==
    /\ inv[c].pc = "set"
    /\ LET set == RedisSet(redis, now, inv[c].key, JsonDumps(inv[c].item), inv[c].ttl, TRUE)
       IN
       IF ~ok
       THEN Failed(c, inv[c].key, RedisError, "none", hist)
       ELSE Succeeded(c, inv[c], set.store, "recover", hist)
    /\ UNCHANGED <<now, cfg, metrics>>

\* an overwrite that gives the lock back when the command fails
OverwriteOrphan_Release(c, ok) ==
    /\ inv[c].pc = "set"
    /\ LET set == RedisSet(redis, now, inv[c].key, JsonDumps(inv[c].item), inv[c].ttl, FALSE)
       IN
       IF ~ok
       THEN /\ inv' = [inv EXCEPT ![c] = IdleInv]
            /\ redis' = RedisDelete(redis, LockName(inv[c].key))
            /\ hist' = Observe([Raced(hist, RedisError) EXCEPT !.fresh = @ \ {c},
                                                                !.rivals = @ \ {c}],
                               [Ended("save", RedisError, inv[c].key) EXCEPT
                                    !.cmds = inv[c].cmds + 1],
                               redis', inv')
       ELSE Succeeded(c, inv[c], set.store, "recover", hist)
    /\ UNCHANGED <<now, cfg, metrics>>

\* _put_in_progress_record: the forced overwrite of an orphan under the lock
OverwriteOrphan(c, ok) ==
    /\ inv[c].pc = "set"
    /\ LET set == RedisSet(redis, now, inv[c].key, JsonDumps(inv[c].item), inv[c].ttl, FALSE)
       IN
       IF ~ok
       THEN Failed(c, inv[c].key, RedisError, "none", hist)
       ELSE Succeeded(c, inv[c], set.store, "recover", hist)
    /\ UNCHANGED <<now, cfg, metrics>>

----------------------------------------------------------------------------
(* update_to_completed: BasePersistenceLayer.save_success, then _update_record *)

NewCompletedRecord(k, payload_hash, r, t) ==
    DataRecord(k, STATUS_COMPLETED,
               <<NowSeconds(t) + cfg.expires_after_seconds>>,
               <<>>,
               r,
               payload_hash)

\* an update that only replaces an existing value (SET with XX)
UpdateToCompleted_IfPresent(c, r, ok) ==
    /\ inv[c].pc = "running"
    /\ LET k == inv[c].key
           rec == NewCompletedRecord(k, inv[c].hash, r, now)
           ttl == GetExpirySecond(rec.expiry_timestamp, now, cfg.expires_after_seconds)
           set == RedisSet(redis, now, k, JsonDumps(CompletedMapping(rec)), ttl, FALSE)
       IN
       /\ inv' = [inv EXCEPT ![c] = IdleInv]
       /\ IF ~ok
          THEN /\ redis' = redis
               /\ hist' = Observe(Closed(hist), Ended("update", RedisError, k),
                                  redis', inv')
          ELSE /\ redis' = IF redis[k].present THEN set.store ELSE redis
               /\ hist' = Observe([Closed(Wrote(hist, k, "update")) EXCEPT
                                       !.completed[k] = <<[data |-> r,
                                                           expiry |-> rec.expiry_timestamp[1]]>>],
                                  [Ended("update", "Success", k) EXCEPT
                                       !.hash = inv[c].hash,
                                       !.prev = GetRecordFromStore(redis, k).kind],
                                  redis', inv')
    /\ UNCHANGED <<now, cfg, metrics>>

UpdateToCompleted(c, r, ok) ==
    /\ inv[c].pc = "running"
    /\ LET k == inv[c].key
           rec == NewCompletedRecord(k, inv[c].hash, r, now)
           ttl == GetExpirySecond(rec.expiry_timestamp, now, cfg.expires_after_seconds)
           set == RedisSet(redis, now, k, JsonDumps(CompletedMapping(rec)), ttl, FALSE)
       IN
       /\ inv' = [inv EXCEPT ![c] = IdleInv]
       /\ IF ~ok
          THEN /\ redis' = redis
               /\ hist' = Observe(Closed(hist), Ended("update", RedisError, k),
                                  redis', inv')
          ELSE /\ redis' = set.store
               /\ hist' = Observe([Closed(Wrote(hist, k, "update")) EXCEPT
                                       !.completed[k] = <<[data |-> r,
                                                           expiry |-> rec.expiry_timestamp[1]]>>],
                                  [Ended("update", "Success", k) EXCEPT
                                       !.hash = inv[c].hash,
                                       !.prev = GetRecordFromStore(redis, k).kind],
                                  redis', inv')
    /\ UNCHANGED <<now, cfg, metrics>>

\* a delete that treats a missing record as an error
DeleteInProgress_Strict(c, ok) ==
    /\ inv[c].pc = "running"
    /\ LET k == inv[c].key IN
       /\ inv' = [inv EXCEPT ![c] = IdleInv]
       /\ IF ~ok
          THEN /\ redis' = redis
               /\ hist' = Observe(Closed(hist), Ended("delete", RedisError, k),
                                  redis', inv')
          ELSE IF ~redis[k].present
          THEN /\ redis' = redis
               /\ hist' = Observe(Closed(hist), Ended("delete", "ItemNotFound", k),
                                  redis', inv')
          ELSE /\ redis' = RedisDelete(redis, k)
               /\ hist' = Observe(Closed(Wrote(hist, k, "delete")),
                                  [Ended("delete", "Success", k) EXCEPT
                                       !.prev = GetRecordFromStore(redis, k).kind],
                                  redis', inv')
    /\ UNCHANGED <<now, cfg, metrics>>

\* delete_in_progress: BasePersistenceLayer.delete_record, then _delete_record
DeleteInProgress(c, ok) ==
    /\ inv[c].pc = "running"
    /\ LET k == inv[c].key IN
       /\ inv' = [inv EXCEPT ![c] = IdleInv]
       /\ IF ~ok
          THEN /\ redis' = redis
               /\ hist' = Observe(Closed(hist), Ended("delete", RedisError, k),
                                  redis', inv')
          ELSE /\ redis' = RedisDelete(redis, k)
               /\ hist' = Observe(Closed(Wrote(hist, k, "delete")),
                                  [Ended("delete", "Success", k) EXCEPT
                                       !.prev = GetRecordFromStore(redis, k).kind],
                                  redis', inv')
    /\ UNCHANGED <<now, cfg, metrics>>

\* the invocation dies (timeout, crash) before it completes or deletes its record
Abandon(c) ==
    /\ inv[c].pc = "running"
    /\ inv' = [inv EXCEPT ![c] = IdleInv]
    /\ hist' = Observe(Closed(hist), NotEnded, redis, inv')
    /\ UNCHANGED <<now, redis, cfg, metrics>>

\* get_record: _get_record, then BasePersistenceLayer._validate_payload
GetRecordOutcome(store, k, payload_hash) ==
    LET got == GetRecordFromStore(store, k) IN
    IF got.kind # "Record" THEN got
    ELSE IF ~ValidatePayload(cfg.payload_validation_enabled, payload_hash, got.rec)
    THEN [kind |-> "ValidationError", rec |-> NoRecord]
    ELSE got

GetRecord(c, k, h, ok) ==
    /\ inv[c].pc = "idle"
    /\ LET ph == HashedPayload(cfg.payload_validation_enabled, h)
           res == IF ok THEN GetRecordOutcome(redis, k, ph).kind ELSE RedisError
       IN hist' = Observe(hist, [Ended("get", res, k) EXCEPT !.hash = ph], redis, inv)
    /\ UNCHANGED <<now, redis, inv, cfg, metrics>>

----------------------------------------------------------------------------
(* The clock.  The store drops a key at the instant its TTL runs out. *)

\* what a fresh caller would find for key k at instant t
Standing(store, k, t) ==
    LET got == GetRecordFromStore(store, k) IN
    IF got.kind = "Record" THEN Classify(got.rec, t, t) ELSE got.kind

\* a completion is remembered until its expiry timestamp is reached; a run of
\* lock-contention failures ends when a lock runs out
Remembered(h, store, t) ==
    [h EXCEPT !.completed = [k \in Keys |->
                  IF h.completed[k] # <<>> /\ h.completed[k][1].expiry * MsPerSec <= t
                  THEN <<>> ELSE h.completed[k]],
              !.lost = IF \E k \in Keys : Purge(store, t)[LockName(k)] # store[LockName(k)]
                       THEN 0 ELSE h.lost,
              !.fresh = IF \E k \in Keys : Purge(store, t)[k] # store[k]
                        THEN {} ELSE h.fresh,
              !.rivals = IF \E k \in Keys : Purge(store, t)[LockName(k)] # store[LockName(k)]
                         THEN {} ELSE h.rivals,
              !.recovered = [k \in Keys |->
                  IF Purge(store, t)[LockName(k)] # store[LockName(k)]
                  THEN 0 ELSE h.recovered[k]]]

Tick ==
    /\ NowSeconds(now + TickMs) <= MaxTimeSec
    /\ now' = now + TickMs
    /\ redis' = Purge(redis, now')
    /\ hist' = IF redis' = redis
                  /\ \A k \in Keys : Standing(redis, k, now) = Standing(redis, k, now')
               THEN Observe(Remembered(hist, redis, now'), NotEnded, redis', inv)
               ELSE Observe(Closed(Remembered(hist, redis, now')), NotEnded, redis', inv)
    /\ UNCHANGED <<inv, cfg, metrics>>

----------------------------------------------------------------------------

\* every store command is answered
Next ==
    \/ \E c \in Callers, k \in Keys, h \in Hashes, rem \in RemainingMs :
          SaveInProgress(c, k, h, rem, TRUE)
    \/ \E c \in Callers : ReadExisting(c, TRUE)
    \/ \E c \in Callers : AcquireLock(c, TRUE)
    \/ \E c \in Callers : OverwriteOrphan(c, TRUE)
    \/ \E c \in Callers, r \in Responses : UpdateToCompleted(c, r, TRUE)
    \/ \E c \in Callers : DeleteInProgress(c, TRUE)
    \/ \E c \in Callers : Abandon(c)
    \/ \E c \in Callers, k \in Keys, h \in Hashes : GetRecord(c, k, h, TRUE)
    \/ Tick

\* every save_in_progress carries the remaining time of its invocation
NextValidation ==
    \/ \E c \in Callers, k \in Keys, h \in Hashes :
          SaveInProgress(c, k, h, <<MsPerSec>>, TRUE)
    \/ \E c \in Callers : ReadExisting(c, TRUE)
    \/ \E c \in Callers : AcquireLock(c, TRUE)
    \/ \E c \in Callers : OverwriteOrphan(c, TRUE)
    \/ \E c \in Callers : UpdateToCompleted(c, "r1", TRUE)
    \/ \E c \in Callers : DeleteInProgress(c, TRUE)
    \/ \E c \in Callers : Abandon(c)
    \/ \E c \in Callers, k \in Keys, h \in Hashes : GetRecord(c, k, h, TRUE)
    \/ Tick

\* values another program may leave under an idempotency key: malformed texts,
\* a mapping without the status attribute, and a COMPLETED record of the past
ForeignValues ==
    {NotJsonText, JsonArrayText, EmptyText,
     JsonDumps(data_attr :> "r0"),
     JsonDumps((data_attr :> "r0") @@ (status_attr :> STATUS_COMPLETED)
               @@ (expiry_attr :> 1))}

\* another program sharing the store sets key k
ForeignWrite(k, v) ==
    /\ hist.foreign < MaxForeign
    /\ redis' = ForeignSet(redis, k, v)
    /\ hist' = Observe([Closed(Wrote(hist, k, "foreign")) EXCEPT
                            !.foreign = hist.foreign + 1, !.completed[k] = <<>>],
                       NotEnded, redis', inv)
    /\ UNCHANGED <<now, inv, cfg, metrics>>

\* the store is shared with another program
NextForeign ==
    \/ Next
    \/ \E k \in Keys, v \in ForeignValues : ForeignWrite(k, v)

\* a store command fails with a connection error
Fault ==
    \/ \E c \in Callers, k \in Keys, h \in Hashes, rem \in RemainingMs :
          SaveInProgress(c, k, h, rem, FALSE)
    \/ \E c \in Callers : ReadExisting(c, FALSE)
    \/ \E c \in Callers : AcquireLock(c, FALSE)
    \/ \E c \in Callers : OverwriteOrphan(c, FALSE)
    \/ \E c \in Callers, r \in Responses : UpdateToCompleted(c, r, FALSE)
    \/ \E c \in Callers : DeleteInProgress(c, FALSE)
    \/ \E c \in Callers, k \in Keys, h \in Hashes : GetRecord(c, k, h, FALSE)

NextFaulty == Next \/ Fault

\* payload validation off
Spec == Init /\ [][Next]_vars

\* payload validation on, every call made with a Lambda context
SpecValidation == InitValidation /\ [][NextValidation]_vars

\* payload validation off, store commands may fail
SpecFaulty == Init /\ [][NextFaulty]_vars

\* payload validation off, the store is shared with another program
SpecForeign == Init /\ [][NextForeign]_vars

----------------------------------------------------------------------------
(* Observations shared by the properties below *)

\* the record get_record would deserialize for key k
StoredRecord(k) == GetRecordFromStore(redis, k)

\* caller a holds an unexpired IN_PROGRESS record: its save_in_progress returned
\* success, its deadline is in the future and the store still holds that record
HoldsLive(a) ==
    /\ inv[a].pc = "running"
    /\ inv[a].lease # <<>>
    /\ inv[a].lease[1] > NowMillis(now)
    /\ StoredRecord(inv[a].key).kind = "Record"
    /\ StoredRecord(inv[a].key).rec.status = STATUS_INPROGRESS
    /\ StoredRecord(inv[a].key).rec.in_progress_expiry_timestamp = inv[a].lease

\* this step is the one in which caller b's save_in_progress returns success
SaveSucceeds(b) == inv[b].pc # "running" /\ inv'[b].pc = "running"

----------------------------------------------------------------------------
(* C1  Mutual exclusion: while a caller holds an unexpired IN_PROGRESS     *)
(* record for a key, no other caller's save_in_progress on that key        *)
(* returns success.                                                        *)

C1_MutualExclusion ==
    [][\A a, b \in Callers :
          (a # b /\ HoldsLive(a) /\ SaveSucceeds(b)) => inv'[b].key # inv[a].key]_vars

----------------------------------------------------------------------------
(* C2  First writer wins: when the key is absent and several callers call  *)
(* save_in_progress concurrently, with no delete and no expiry in between, *)
(* exactly one call succeeds and every other one fails with                *)
(* ItemAlreadyExists.                                                      *)

C2_FirstWriterWins == hist.open => (hist.wins <= 1 /\ ~hist.stray)

----------------------------------------------------------------------------
(* C3  Replay: once update_to_completed(K, R) has succeeded and until the  *)
(* record's expiry timestamp passes, get_record(K) returns a COMPLETED     *)
(* record with response data R, and a save_in_progress(K) that starts      *)
(* afterwards does not succeed (a call that succeeds through the           *)
(* conditional create starts and ends in one step, so it started           *)
(* afterwards).                                                            *)

C3_Replay ==
    \A k \in Keys :
        hist.completed[k] # <<>> =>
            /\ StoredRecord(k).kind = "Record"
            /\ Status(StoredRecord(k).rec, now) = STATUS_COMPLETED
            /\ StoredRecord(k).rec.response_data = hist.completed[k][1].data
            /\ ~(hist.last.op = "save" /\ hist.last.key = k /\ hist.last.via = "create")

----------------------------------------------------------------------------
(* C5  Failure cleanup: after delete_in_progress(K) has returned and       *)
(* before any other write to K, get_record(K) raises ItemNotFound.         *)

C5_FailureCleanup ==
    /\ \A k \in Keys, h \in Hashes :
          hist.lastWrite[k] = "delete" =>
              GetRecordOutcome(redis, k, HashedPayload(cfg.payload_validation_enabled, h)).kind
                  = "ItemNotFound"
    /\ (hist.last.op = "get" /\ hist.lastWrite[hist.last.key] = "delete") =>
           hist.last.res = "ItemNotFound"

\* a get_record has just run on a key whose last write was a delete
C5_Witness ==
    /\ hist.last.op = "get"
    /\ hist.lastWrite[hist.last.key] = "delete"
    /\ hist.last.res = "ItemNotFound"

----------------------------------------------------------------------------
(* C6  Retry from scratch: after delete_in_progress(K) has returned, the   *)
(* next save_in_progress(K), with no other write to K in between, returns  *)
(* success through the plain conditional create, whether or not the lock   *)
(* K:lock is still held.                                                   *)

\* this step is the first command of a save_in_progress by caller c
SaveStarts(c) == inv[c].pc = "idle" /\ inv'[c].pc # "idle"

C6_RetryFromScratch ==
    [][\A c \in Callers :
          (SaveStarts(c) /\ hist.lastWrite[inv'[c].key] = "delete") =>
              /\ inv'[c].pc = "running"
              /\ hist'.last.op = "save"
              /\ hist'.last.res = "Success"
              /\ hist'.last.via = "create"]_vars

\* a save has just succeeded by the conditional create, right after a delete,
\* while the lock of the key is held
C6_Witness ==
    /\ hist.last.op = "save"
    /\ hist.last.res = "Success"
    /\ hist.last.via = "create"
    /\ hist.last.prev = "delete"
    /\ redis[LockName(hist.last.key)].present

----------------------------------------------------------------------------
(* C7  The only outcomes of save_in_progress(K) are success,               *)
(* ItemAlreadyExists and a transport error, in every interleaving with     *)
(* the other operations on K and with the expiry of K.                     *)

C7_SaveOutcomes ==
    hist.last.op = "save" =>
        hist.last.res \in {"Success", "ItemAlreadyExists", RedisError}

----------------------------------------------------------------------------
(* C8  Payload validation: with payload validation enabled, a get_record   *)
(* on a key whose stored record carries a payload hash different from the  *)
(* hash of the call's payload fails with ValidationError.                  *)

\* the stored value of k is a mapping get_record can turn into a record
HasRecord(k) ==
    /\ redis[k].present
    /\ redis[k].val.txt = "object"
    /\ status_attr \in DOMAIN redis[k].val.obj

\* the payload hash get_record reads from the stored mapping
StoredHash(k) == PyStr(DictGet(redis[k].val.obj, validation_key_attr))

----------------------------------------------------------------------------
(* C9  With payload validation enabled, the payload hash of the owning     *)
(* invocation is part of the stored record after save_in_progress and      *)
(* after update_to_completed: get_record returns that hash, and a call     *)
(* with the same payload hash matches the stored record.                   *)

C9_HashStored ==
    (/\ cfg.payload_validation_enabled
     /\ hist.last.op \in {"save", "update"}
     /\ hist.last.res = "Success")
        => /\ StoredRecord(hist.last.key).kind = "Record"
           /\ StoredRecord(hist.last.key).rec.payload_hash = hist.last.hash
           /\ GetRecordOutcome(redis, hist.last.key, hist.last.hash).kind = "Record"

----------------------------------------------------------------------------
(* C10  save_in_progress(K) on a key that holds a live record (COMPLETED   *)
(* and not expired, or IN_PROGRESS with its deadline in the future) fails  *)
(* with ItemAlreadyExists and writes nothing: neither the record of K nor  *)
(* the lock K:lock is created or changed.                                  *)

LiveRecord(k) ==
    LET got == StoredRecord(k) IN
    /\ got.kind = "Record"
    /\ \/ got.rec.status = STATUS_COMPLETED /\ ~IsExpired(got.rec, now)
       \/ /\ got.rec.status = STATUS_INPROGRESS
          /\ got.rec.in_progress_expiry_timestamp # <<>>
          /\ got.rec.in_progress_expiry_timestamp[1] > NowMillis(now)

----------------------------------------------------------------------------
(* C4  Orphan recovery is live: with an IN_PROGRESS record for K whose     *)
(* deadline is in the past, a caller that keeps invoking                   *)
(* save_in_progress(K) gets success after at most one retry caused by      *)
(* lock contention.                                                        *)

\* the store holds for k an IN_PROGRESS record whose deadline has passed at t
PastDeadlineAt(k, t) ==
    LET got == StoredRecord(k) IN
    /\ got.kind = "Record"
    /\ got.rec.status = STATUS_INPROGRESS
    /\ got.rec.in_progress_expiry_timestamp # <<>>
    /\ got.rec.in_progress_expiry_timestamp[1] <= NowMillis(t)

PastDeadline(k) == PastDeadlineAt(k, now)

----------------------------------------------------------------------------
(* C11  save_in_progress(K) on a key that holds an orphan (a COMPLETED     *)
(* record that has expired, or an IN_PROGRESS record whose deadline has    *)
(* passed) while K:lock is free acquires the lock, overwrites K            *)
(* unconditionally with the caller's new IN_PROGRESS record and returns    *)
(* success; get_record(K) then returns IN_PROGRESS with the new caller's   *)
(* deadline.                                                               *)

\* the store holds for k a COMPLETED record past its expiry timestamp
ExpiredCompleted(k) ==
    LET got == StoredRecord(k) IN
    /\ got.kind = "Record"
    /\ got.rec.status = STATUS_COMPLETED
    /\ IsExpired(got.rec, now)

C11_OrphanRecovered ==
    /\ [](hist.last.via = "recover" =>
             LET k == hist.last.key
                 c == hist.owner[k]
             IN
             /\ hist.last.res = "Success"
             /\ inv[c].pc = "running"
             /\ StoredRecord(k).kind = "Record"
             /\ StoredRecord(k).rec.status = STATUS_INPROGRESS
             /\ StoredRecord(k).rec.in_progress_expiry_timestamp = inv[c].lease)
    /\ [][\A c \in Callers :
             LET k == inv[c].key
                 acts == inv'[c] # inv[c]
             IN
             /\ (/\ inv[c].pc = "get" /\ acts
                 /\ (ExpiredCompleted(k) \/ PastDeadlineAt(k, inv[c].now))) =>
                    inv'[c].pc = "lock"
             /\ (inv[c].pc = "lock" /\ acts /\ ~redis[LockName(k)].present) =>
                    inv'[c].pc = "set"
             /\ (inv[c].pc = "set" /\ acts) =>
                    (hist'.last.via = "recover" /\ hist'.owner[k] = c)]_vars

\* a caller that found an expired COMPLETED record holds the lock and is
\* about to overwrite the record
C11_Witness ==
    \E c \in Callers :
        /\ inv[c].pc = "set"
        /\ ExpiredCompleted(inv[c].key)
        /\ redis[LockName(inv[c].key)].present

----------------------------------------------------------------------------
(* C12  Any stored value of K that cannot be deserialized into a Record    *)
(* (text that is not valid JSON, valid JSON that is not a mapping, a       *)
(* mapping without the status field) is treated as an orphan:              *)
(* get_record(K) fails with OrphanRecord, and save_in_progress(K) recovers *)
(* it like an expired record, so it never ends with another error.         *)

\* the store holds for k a value that is not the mapping of a Record
Malformed(k) == redis[k].present /\ ~HasRecord(k)

C12_MalformedIsOrphan ==
    \A k \in Keys :
        Malformed(k) =>
            /\ GetRecordOutcome(redis, k, "").kind = "OrphanRecord"
            /\ (hist.last.op = "save" /\ hist.last.key = k) =>
                   hist.last.res = "ItemAlreadyExists"

----------------------------------------------------------------------------
(* C13  When save_in_progress(K) finds an orphan but K:lock is already     *)
(* held, it fails with ItemAlreadyExists and leaves the record of K and    *)
(* the lock (value and remaining TTL) unchanged.                           *)

C13_LockHeld ==
    [][\A c \in Callers :
          (/\ inv[c].pc = "lock"
           /\ inv'[c] # inv[c]
           /\ redis[LockName(inv[c].key)].present) =>
              /\ inv'[c].pc = "idle"
              /\ hist'.last.op = "save"
              /\ hist'.last.res = "ItemAlreadyExists"
              /\ redis'[inv[c].key] = redis[inv[c].key]
              /\ redis'[LockName(inv[c].key)] = redis[LockName(inv[c].key)]]_vars

\* a save has just failed on the held lock; the orphan is still stored
C13_Witness ==
    /\ hist.last.op = "save"
    /\ hist.last.res = "ItemAlreadyExists"
    /\ hist.last.via \in {"lock", "lockAgain"}
    /\ redis[LockName(hist.last.key)].present
    /\ redis[hist.last.key].present

----------------------------------------------------------------------------
(* C14  For every key K, of the callers that detected the same orphan at   *)
(* most one returns success from save_in_progress(K) through the           *)
(* orphan-recovery path between two expiries of K:lock.                    *)

C14_OneRecovererPerWindow == \A k \in Keys : hist.recovered[k] <= 1

----------------------------------------------------------------------------
(* C15  The orphan-recovery lock is never released by the engine: once     *)
(* K:lock is in the store it stays, with its value and TTL, until its TTL  *)
(* expires; no operation deletes or overwrites it.                         *)

C15_LockNeverReleased ==
    [][\A k \in Keys :
          redis[LockName(k)].present =>
              \/ redis'[LockName(k)] = redis[LockName(k)]
              \/ /\ ~redis'[LockName(k)].present
                 /\ now' > now
                 /\ redis[LockName(k)].exp <= now']_vars

\* a delete has just removed the record of a key whose lock is stored
C15_Witness ==
    /\ hist.last.op = "delete"
    /\ hist.last.res = "Success"
    /\ hist.last.prev = "Record"
    /\ hist.lastWrite[hist.last.key] = "delete"
    /\ redis[LockName(hist.last.key)].present

----------------------------------------------------------------------------
(* C16  get_record(K) fails with ItemNotFound exactly when the store holds *)
(* no value for K, returns the Record when the value deserializes, and     *)
(* never modifies the store.                                               *)

\* this step is a get_record call that reached the store
GetRecordReturns ==
    /\ hist'.last.op = "get"
    /\ hist'.last.res # RedisError

C16_GetRecord ==
    [][GetRecordReturns =>
          /\ redis' = redis
          /\ hist'.last.res = "ItemNotFound" <=> ~redis[hist'.last.key].present
          /\ (HasRecord(hist'.last.key) /\ ~cfg.payload_validation_enabled)
                 => hist'.last.res = "Record"]_vars

----------------------------------------------------------------------------
(* C17  update_to_completed(K, R, expiry) is an unconditional overwrite:   *)
(* whatever the store holds for K beforehand, afterwards K holds a         *)
(* COMPLETED record with response data R and the new expiry and TTL, and   *)
(* the call never fails because of the prior content of K.                 *)

\* the value update_to_completed leaves under K when it stores response r at
\* instant t
CompletedEntry(r, t) ==
    [present |-> TRUE,
     val |-> JsonDumps((data_attr :> r) @@ (status_attr :> STATUS_COMPLETED)
                       @@ (expiry_attr :> NowSeconds(t) + cfg.expires_after_seconds)),
     exp |-> t + cfg.expires_after_seconds * MsPerSec]

C17_UnconditionalUpdate ==
    [][hist'.last.op = "update" =>
          /\ hist'.last.res \in {"Success", RedisError}
          /\ hist'.last.res = "Success" =>
                 /\ \E r \in Responses :
                        /\ hist'.completed[hist'.last.key] # <<>>
                        /\ hist'.completed[hist'.last.key][1].data = r
                        /\ redis'[hist'.last.key] = CompletedEntry(r, now)
                 /\ \A n \in StoreNames \ {hist'.last.key} : redis'[n] = redis[n]]_vars

\* an update has just replaced a value that is not JSON
C17_Witness ==
    /\ hist.last.op = "update"
    /\ hist.last.res = "Success"
    /\ hist.last.prev = "OrphanRecord"
    /\ StoredRecord(hist.last.key).kind = "Record"
    /\ StoredRecord(hist.last.key).rec.status = STATUS_COMPLETED

----------------------------------------------------------------------------
(* C18  delete_in_progress(K) is best-effort: on a key with no record it   *)
(* returns without error and leaves the store unchanged, and in every case *)
(* it removes only K and never the lock K:lock or any other key.           *)

C18_DeleteBestEffort ==
    [][hist'.last.op = "delete" =>
          /\ hist'.last.res \in {"Success", RedisError}
          /\ \A n \in StoreNames \ {hist'.last.key} : redis'[n] = redis[n]
          /\ hist'.last.res = "Success" => ~redis'[hist'.last.key].present
          /\ ~redis[hist'.last.key].present => redis' = redis]_vars

\* a delete has just returned on a key that held nothing, while the lock of
\* the key is stored
C18_Witness ==
    /\ hist.last.op = "delete"
    /\ hist.last.res = "Success"
    /\ hist.last.prev = "ItemNotFound"
    /\ ~redis[hist.last.key].present
    /\ redis[LockName(hist.last.key)].present

----------------------------------------------------------------------------
(* C19  Ownership: the record of K is overwritten or deleted through       *)
(* update_to_completed or delete_in_progress only by the invocation whose  *)
(* save_in_progress(K) last returned success; an invocation whose lease    *)
(* expired and whose key was recovered by another caller never changes or  *)
(* removes the new owner's record.                                         *)

\* this step is caller c's update_to_completed or delete_in_progress and it
\* changes what the store holds for the caller's key
Finishes(c) ==
    /\ inv[c].pc = "running"
    /\ inv'[c].pc = "idle"
    /\ hist'.last.op \in {"update", "delete"}
    /\ redis'[inv[c].key] # redis[inv[c].key]

C19_Ownership ==
    [][\A c \in Callers : Finishes(c) => hist.owner[inv[c].key] = c]_vars

----------------------------------------------------------------------------
(* C20  Lifecycle transitions: the stored status of a key only moves       *)
(* ABSENT -> IN_PROGRESS -> COMPLETED or back to ABSENT, and               *)
(* COMPLETED -> ABSENT; in particular a COMPLETED record is never          *)
(* overwritten by an IN_PROGRESS record, in any interleaving of callers.   *)

STATUS_ABSENT == "ABSENT"

\* the status the store holds for key k
StoredStatus(store, k) ==
    IF ~store[k].present THEN STATUS_ABSENT
    ELSE PyStr(DictGet(store[k].val.obj, status_attr))

LifecycleMoves ==
    {<<STATUS_ABSENT, STATUS_INPROGRESS>>,
     <<STATUS_INPROGRESS, STATUS_COMPLETED>>,
     <<STATUS_INPROGRESS, STATUS_ABSENT>>,
     <<STATUS_COMPLETED, STATUS_ABSENT>>}

C20_Lifecycle ==
    [][\A k \in Keys :
          \/ StoredStatus(redis', k) = StoredStatus(redis, k)
          \/ <<StoredStatus(redis, k), StoredStatus(redis', k)>> \in LifecycleMoves]_vars

----------------------------------------------------------------------------
(* C21  Every record the engine stores with status IN_PROGRESS carries an  *)
(* in_progress_expiry_timestamp: no sequence of save_in_progress calls     *)
(* leaves in the store an IN_PROGRESS record without the deadline field.   *)

C21_InProgressHasDeadline ==
    \A k \in Keys :
        (HasRecord(k) /\ redis[k].val.obj[status_attr] = STATUS_INPROGRESS)
            => in_progress_expiry_attr \in DOMAIN redis[k].val.obj

----------------------------------------------------------------------------
(* C22  A failure of the backing store during any command of               *)
(* save_in_progress, update_to_completed, delete_in_progress or get_record *)
(* surfaces to the caller as one of the taxonomy errors (TransportError    *)
(* for connection failures); no exception type of the backend crosses the  *)
(* boundary of the engine.                                                 *)

ErrorTaxonomy ==
    {"ItemAlreadyExists", "ItemNotFound", "OrphanRecord", "ValidationError",
     "TransportError"}

C22_TaxonomyOnly ==
    (hist.last.op \in {"save", "update", "delete", "get"} /\ hist.last.res # "Success")
        => hist.last.res \in ErrorTaxonomy \cup {"Record"}

----------------------------------------------------------------------------
(* C23  The engine never retries: a transport failure of a store command   *)
(* aborts the current operation at once, and every save_in_progress call   *)
(* terminates after at most four store commands issued in the fixed order  *)
(* conditional create of K, read of K, conditional create of K:lock, plain *)
(* set of K, each at most once.                                            *)

\* the commands a save_in_progress has issued when it stands before the
\* command of position pc
IssuedBefore(pc) ==
    IF pc = "get" THEN 1 ELSE IF pc = "lock" THEN 2 ELSE IF pc = "set" THEN 3 ELSE 0

\* the only names a step of caller c at position pc may change in the store
Touched(c, pc) ==
    IF pc = "lock" THEN {LockName(inv[c].key)}
    ELSE IF pc = "set" THEN {inv[c].key}
    ELSE {}

C23_NoRetry ==
    /\ [](\A c \in Callers : inv[c].cmds = IssuedBefore(inv[c].pc))
    /\ [](hist.last.op = "save" => hist.last.cmds \in 1..4)
    /\ [][\A c \in Callers :
             (inv[c].pc \in {"get", "lock", "set"} /\ inv'[c] # inv[c]) =>
                 /\ \A n \in StoreNames \ Touched(c, inv[c].pc) : redis'[n] = redis[n]
                 /\ \/ inv'[c].pc = "idle" /\ hist'.last.op = "save"
                    \/ inv[c].pc = "get" /\ inv'[c].pc = "lock"
                    \/ inv[c].pc = "lock" /\ inv'[c].pc = "set"
                    \/ /\ inv[c].pc = "set" /\ inv'[c].pc = "running"
                       /\ hist'.last.res = "Success"]_vars

\* a save_in_progress has issued its four commands and the last one failed on
\* the connection: the call ended there
C23_Witness ==
    /\ hist.last.op = "save"
    /\ hist.last.res = RedisError
    /\ hist.last.cmds = 4
    /\ \E c \in Callers : inv[c].pc = "idle"

----------------------------------------------------------------------------
(* C24  OrphanRecord never escapes save_in_progress: whenever the orphan   *)
(* classification is raised inside save_in_progress, the call ends with    *)
(* success, ItemAlreadyExists or a transport error, never with             *)
(* OrphanRecord.                                                           *)

C24_OrphanNeverEscapes ==
    /\ [](hist.last.op = "save" => hist.last.res # "OrphanRecord")
    /\ [][\A c \in Callers :
             (/\ inv[c].pc \in {"lock", "set"}
              /\ inv'[c].pc \in {"idle", "running"}) =>
                 /\ hist'.last.op = "save"
                 /\ hist'.last.res \in {"Success", "ItemAlreadyExists", RedisError}]_vars

\* the read classified the record as orphan and the lock command then failed
\* on the connection
C24_Witness ==
    /\ hist.last.op = "save"
    /\ hist.last.cmds = 3
    /\ hist.last.res = RedisError

----------------------------------------------------------------------------
(* C25  A save_in_progress(K) that fails because another invocation is     *)
(* legitimately running and one that fails because another caller holds    *)
(* the orphan-recovery lock return the same observable result:             *)
(* ItemAlreadyExists, and the store as the call found it.                  *)

\* this step ends a save_in_progress on a live record or on a held lock
FailsOnConcurrency ==
    /\ hist'.last.op = "save"
    /\ \/ hist'.last.via \in {"live", "lock", "lockAgain"}
       \/ \E c \in Callers :
             /\ inv[c].pc = "lock"
             /\ inv'[c].pc = "idle"
             /\ redis[LockName(inv[c].key)].present
             /\ hist'.last.res # RedisError

C25_SameFailure ==
    [][FailsOnConcurrency =>
          /\ hist'.last.res = "ItemAlreadyExists"
          /\ redis' = redis]_vars

\* a call has just failed on the live record of the owner that recovered the
\* key, whose lock is still stored: a call failing on that lock got the same
C25_Witness ==
    /\ hist.last.op = "save"
    /\ hist.last.via = "live"
    /\ hist.last.res = "ItemAlreadyExists"
    /\ redis[LockName(hist.last.key)].present
    /\ hist.lastWrite[hist.last.key] = "recover"

----------------------------------------------------------------------------
(* Threads of one process that share the persistence layer, each working   *)
(* on a key of its own.  Next to the shared store the history keeps, for   *)
(* every thread, the store and the locals the thread would have had the    *)
(* other threads never run.                                                *)

\* record_handler(record=i): thread i works on the key of record i
KeyNames == <<"order-1", "order-2", "order-3", "order-4">>
ThreadKey(c) == KeyNames[c]
ThreadNames == UNION {{ThreadKey(c), LockName(ThreadKey(c))} : c \in Callers}

\* what a thread may do next: start a save, go on with the save it is in,
\* finish or abandon the wrapped function, read its record
Doing(op, rem, r) == [op |-> op, rem |-> rem, r |-> r]

\* one step of a thread with locals me on key k, against store, at instant t:
\* the store and the locals after the step, and how the call ended if it did
ThreadStep(store, me, k, t, do) ==
    IF me.pc = "idle" /\ do.op = "save"
    THEN LET rec == NewInProgressRecord(k, "", do.rem, t)
             item == InProgressMapping(rec, FALSE)
             ttl == GetExpirySecond(<<item[expiry_attr]>>, t, cfg.expires_after_seconds)
             set == RedisSet(store, t, k, JsonDumps(item), ttl, TRUE)
             mine == [IdleInv EXCEPT !.key = k, !.lease = rec.in_progress_expiry_timestamp]
         IN IF set.reply
            THEN [store |-> set.store, me |-> [mine EXCEPT !.pc = "running"],
                  res |-> "Success"]
            ELSE [store |-> store,
                  me |-> [mine EXCEPT !.pc = "get", !.now = t, !.item = item,
                                      !.ttl = ttl, !.cmds = 1],
                  res |-> "none"]
    ELSE IF me.pc = "idle"
    THEN [store |-> store, me |-> me, res |-> GetRecordFromStore(store, k).kind]
    ELSE IF me.pc = "get"
    THEN LET got == GetRecordFromStore(store, k)
             outcome == IF got.kind = "Record" THEN Classify(got.rec, me.now, t)
                        ELSE got.kind
         IN IF outcome = "OrphanRecord"
            THEN [store |-> store, me |-> [me EXCEPT !.pc = "lock", !.cmds = @ + 1],
                  res |-> "none"]
            ELSE [store |-> store, me |-> IdleInv, res |-> outcome]
    ELSE IF me.pc = "lock"
    THEN LET set == RedisSet(store, t, LockName(k), LockText,
                             cfg.orphan_lock_timeout, TRUE)
         IN IF set.reply
            THEN [store |-> set.store, me |-> [me EXCEPT !.pc = "set", !.cmds = @ + 1],
                  res |-> "none"]
            ELSE [store |-> store, me |-> IdleInv, res |-> "ItemAlreadyExists"]
    ELSE IF me.pc = "set"
    THEN [store |-> RedisSet(store, t, k, JsonDumps(me.item), me.ttl, FALSE).store,
          me |-> [me EXCEPT !.pc = "running", !.now = 0, !.item = EmptyMap,
                            !.ttl = 0, !.cmds = 0],
          res |-> "Success"]
    ELSE IF do.op = "update"
    THEN LET rec == NewCompletedRecord(k, "", do.r, t)
             ttl == GetExpirySecond(rec.expiry_timestamp, t, cfg.expires_after_seconds)
         IN [store |-> RedisSet(store, t, k, JsonDumps(CompletedMapping(rec)), ttl,
                                FALSE).store,
             me |-> IdleInv, res |-> "Success"]
    ELSE IF do.op = "delete"
    THEN [store |-> RedisDelete(store, k), me |-> IdleInv, res |-> "Success"]
    ELSE [store |-> store, me |-> IdleInv, res |-> "none"]

\* the positions at which a thread can take the step do
CanDo(pc, op) ==
    \/ pc = "idle" /\ op \in {"save", "get"}
    \/ pc \in {"get", "lock", "set"} /\ op = "go"
    \/ pc = "running" /\ op \in {"update", "delete", "abandon"}

AloneHistory ==
    [store |-> [c \in Callers |-> [n \in ThreadNames |-> NoEntry]],
     me |-> [c \in Callers |-> IdleInv],
     last |-> [op |-> "none", res |-> "none", alone |-> "none", absent |-> FALSE]]

InitKeys ==
    /\ now = 0
    /\ redis = [n \in ThreadNames |-> NoEntry]
    /\ inv = [c \in Callers |-> IdleInv]
    /\ \E w \in ExpiryWindows :
          cfg = [expires_after_seconds |-> w,
                 orphan_lock_timeout |-> OrphanLockTimeout(w),
                 payload_validation_enabled |-> FALSE]
    /\ hist = AloneHistory
    /\ metrics = NoMetrics

\* thread c takes a step, in the shared store and in the store it has alone
ThreadAct(c, do) ==
    /\ CanDo(inv[c].pc, do.op)
    /\ LET k == ThreadKey(c)
           shared == ThreadStep(redis, inv[c], k, now, do)
           alone == ThreadStep(hist.store[c], hist.me[c], k, now, do)
       IN
       /\ redis' = shared.store
       /\ inv' = [inv EXCEPT ![c] = shared.me]
       /\ hist' = [store |-> [hist.store EXCEPT ![c] = alone.store],
                   me |-> [hist.me EXCEPT ![c] = alone.me],
                   last |-> [op |-> do.op, res |-> shared.res, alone |-> alone.res,
                             absent |-> ~redis[k].present]]
    /\ UNCHANGED <<now, cfg, metrics>>

TickKeys ==
    /\ NowSeconds(now + TickMs) <= MaxTimeSec
    /\ now' = now + TickMs
    /\ redis' = Purge(redis, now')
    /\ hist' = [hist EXCEPT !.store = [c \in Callers |-> Purge(hist.store[c], now')],
                            !.last = AloneHistory.last]
    /\ UNCHANGED <<inv, cfg, metrics>>

NextKeys ==
    \/ \E c \in Callers, rem \in RemainingMs : ThreadAct(c, Doing("save", rem, ""))
    \/ \E c \in Callers : ThreadAct(c, Doing("go", <<>>, ""))
    \/ \E c \in Callers, r \in Responses : ThreadAct(c, Doing("update", <<>>, r))
    \/ \E c \in Callers : ThreadAct(c, Doing("delete", <<>>, ""))
    \/ \E c \in Callers : ThreadAct(c, Doing("abandon", <<>>, ""))
    \/ \E c \in Callers : ThreadAct(c, Doing("get", <<>>, ""))
    \/ TickKeys

SpecKeys == InitKeys /\ [][NextKeys]_vars

----------------------------------------------------------------------------
(* C26  Keys are independent: for distinct idempotency keys, any           *)
(* interleaving of operations on one key by one thread with operations on  *)
(* another key by another thread of the same engine instance gives each    *)
(* thread the same results and leaves each key's record the same as if the *)
(* other thread had not run; concurrent save_in_progress calls on distinct *)
(* absent keys all succeed.                                                *)

C26_KeysIndependent ==
    /\ \A c \in Callers :
          /\ inv[c] = hist.me[c]
          /\ redis[ThreadKey(c)] = hist.store[c][ThreadKey(c)]
          /\ redis[LockName(ThreadKey(c))] = hist.store[c][LockName(ThreadKey(c))]
    /\ hist.last.res = hist.last.alone
    /\ (hist.last.op = "save" /\ hist.last.absent) => hist.last.res = "Success"

\* every thread runs the wrapped function after it recovered an orphan on its
\* key: the locks of all keys are stored at once
C26_Witness ==
    \A c \in Callers :
        /\ inv[c].pc = "running"
        /\ redis[ThreadKey(c)].present
        /\ redis[LockName(ThreadKey(c))].present

----------------------------------------------------------------------------
(* The attribute names as configuration: a layer built with names of the   *)
(* caller's choice writes a record and reads it back.                      *)

\* the attribute names RedisCachePersistenceLayer.__init__ takes by default
DefaultAttrs ==
    [status |-> status_attr, expiry |-> expiry_attr,
     in_progress_expiry |-> in_progress_expiry_attr,
     data |-> data_attr, validation |-> validation_key_attr]

\* the configurations with at most one attribute renamed
AttrConfigs ==
    {DefaultAttrs} \cup
    {[DefaultAttrs EXCEPT ![f] = "my_" \o DefaultAttrs[f]] : f \in DOMAIN DefaultAttrs}

\* the mapping _put_in_progress_record serializes, under the names a
InProgressMappingWith(a, rec, validation) ==
    LET base == (a.status :> rec.status) @@ (a.expiry :> rec.expiry_timestamp[1])
        lease == IF rec.in_progress_expiry_timestamp # <<>>
                 THEN (a.in_progress_expiry :> rec.in_progress_expiry_timestamp[1])
                 ELSE EmptyMap
        hash == IF validation THEN (a.validation :> rec.payload_hash) ELSE EmptyMap
    IN base @@ lease @@ hash

\* the mapping _update_record serializes, under the names a
CompletedMappingWith(a, rec) ==
    (a.data :> rec.response_data) @@ (a.status :> rec.status)
        @@ (a.expiry :> rec.expiry_timestamp[1])

\* _item_to_data_record under the names a: the expiry is read under the
\* literal name "expiration"
ItemToDataRecordWith(a, key, item) ==
    IF a.status \notin DOMAIN item
    THEN [kind |-> "KeyError", rec |-> NoRecord]
    ELSE [kind |-> "Record",
          rec |-> DataRecord(key,
                             item[a.status],
                             DictGet(item, "expiration"),
                             DictGet(item, a.in_progress_expiry),
                             PyStr(DictGet(item, a.data)),
                             PyStr(DictGet(item, a.validation)))]

AttrKey == "order-1"

\* what save_in_progress makes of a record read back at instant t
ClassifyRead(got, t) ==
    IF got.kind = "Record" THEN Classify(got.rec, t, t) ELSE got.kind

NothingWritten == [written |-> <<>>, read |-> <<>>, byDefault |-> <<>>]

InitAttrs ==
    /\ now = 0
    /\ redis = [n \in {AttrKey} |-> NoEntry]
    /\ inv = [c \in Callers |-> IdleInv]
    /\ \E a \in AttrConfigs, w \in ExpiryWindows, v \in BOOLEAN :
          cfg = [expires_after_seconds |-> w,
                 orphan_lock_timeout |-> OrphanLockTimeout(w),
                 payload_validation_enabled |-> v,
                 attrs |-> a]
    /\ hist = NothingWritten
    /\ metrics = NoMetrics

\* the store after the layer has set the mapping of rec
Stored(rec, mapping) ==
    RedisSet(redis, now, AttrKey, JsonDumps(mapping),
             GetExpirySecond(rec.expiry_timestamp, now, cfg.expires_after_seconds),
             FALSE).store

\* the layer stores rec under its names; the history keeps what a layer
\* with the default names would have stored
WriteInProgress(h, rem) ==
    /\ LET rec == NewInProgressRecord(AttrKey,
                                      HashedPayload(cfg.payload_validation_enabled, h),
                                      rem, now)
       IN
       /\ redis' = Stored(rec, InProgressMappingWith(cfg.attrs, rec,
                                                     cfg.payload_validation_enabled))
       /\ hist' = [written |-> <<rec>>, read |-> <<>>,
                   byDefault |-> <<InProgressMappingWith(DefaultAttrs, rec,
                                       cfg.payload_validation_enabled)>>]
    /\ UNCHANGED <<now, inv, cfg, metrics>>

WriteCompleted(h, r) ==
    /\ LET rec == NewCompletedRecord(AttrKey,
                                     HashedPayload(cfg.payload_validation_enabled, h),
                                     r, now)
       IN
       /\ redis' = Stored(rec, CompletedMappingWith(cfg.attrs, rec))
       /\ hist' = [written |-> <<rec>>, read |-> <<>>,
                   byDefault |-> <<CompletedMappingWith(DefaultAttrs, rec)>>]
    /\ UNCHANGED <<now, inv, cfg, metrics>>

\* _get_record on the stored value
ReadBack ==
    /\ redis[AttrKey].present
    /\ hist.written # <<>>
    /\ hist' = [hist EXCEPT !.read =
                    <<ItemToDataRecordWith(cfg.attrs, AttrKey, redis[AttrKey].val.obj)>>]
    /\ UNCHANGED <<now, redis, inv, cfg, metrics>>

TickAttrs ==
    /\ NowSeconds(now + TickMs) <= MaxTimeSec
    /\ now' = now + TickMs
    /\ redis' = Purge(redis, now')
    /\ hist' = IF redis'[AttrKey].present THEN [hist EXCEPT !.read = <<>>]
               ELSE NothingWritten
    /\ UNCHANGED <<inv, cfg, metrics>>

NextAttrs ==
    \/ \E h \in Hashes, rem \in RemainingMs : WriteInProgress(h, rem)
    \/ \E h \in Hashes, r \in Responses : WriteCompleted(h, r)
    \/ ReadBack
    \/ TickAttrs

SpecAttrs == InitAttrs /\ [][NextAttrs]_vars

----------------------------------------------------------------------------
(* C27  Attribute names are pure configuration: for every choice of the    *)
(* attribute names, a record written by save_in_progress or                *)
(* update_to_completed and read back by get_record has the same status,    *)
(* expiry_timestamp and in_progress_expiry_timestamp as the record         *)
(* written, and save_in_progress classifies it exactly as with the default *)
(* names.                                                                  *)

C27_AttrNamesAreConfiguration ==
    hist.read # <<>> =>
        LET got == hist.read[1]
            rec == hist.written[1]
            ref == ItemToDataRecordWith(DefaultAttrs, AttrKey, hist.byDefault[1])
        IN
        /\ got.kind = "Record"
        /\ got.rec.status = rec.status
        /\ got.rec.expiry_timestamp = rec.expiry_timestamp
        /\ got.rec.in_progress_expiry_timestamp = rec.in_progress_expiry_timestamp
        /\ ClassifyRead(got, now) = ClassifyRead(ref, now)

----------------------------------------------------------------------------
(* The metrics utility: MetricManager of metrics/base.py over the          *)
(* EMFProvider of metrics/provider.py.  A dict is a function from its      *)
(* keys, the metrics object and the module's cold-start flag are the       *)
(* variable metrics, and what a step printed is recorded in hist.  The     *)
(* store, the clock and the callers of the persistence layer do not take   *)
(* part.                                                                   *)

\* MetricsProvider.MAX_METRICS
MAX_METRICS == 100

EmptyDict == <<>>

\* d[k] = v
DictPut(d, k, v) == [x \in DOMAIN d \cup {k} |-> IF x = k THEN v ELSE d[x]]

\* defaultdict(list): reading "Value" of it gives the empty list
DefaultDictOfLists == [Value |-> <<>>]

\* a plain {} has no "Value"
PlainDict == EmptyMap

\* the unit and the resolution of the calls (a valid unit, the default resolution)
CountUnit == "Count"
StandardResolution == 60

\* EMFProvider.add_metric.  The unit and the resolution are valid ones.
EMFAddMetric(metric, name, unit, value, resolution) ==
    IF "Value" \notin DOMAIN metric
    THEN [raised |-> "KeyError", metric |-> metric]
    ELSE [raised |-> "",
          metric |-> [Unit |-> unit, StorageResolution |-> resolution,
                      Value |-> Append(metric.Value, value)]]

\* EMFProvider.serialize: one entry of metric_definition
MetricDefinition(metric_name, metric) ==
    [Name |-> metric_name, Unit |-> metric.Unit,
     StorageResolution |-> IF metric.StorageResolution = 1 THEN <<1>> ELSE <<>>]

\* EMFProvider.serialize (validate returns True: Validate_Metrics is False).
\* The top-level keys of the object are kept apart as Dimensions, Metadata
\* and Values.
EMFSerialize(summary, t) ==
    [Timestamp |-> t,
     Namespace |-> summary.Namespace,
     DimensionNames |-> DOMAIN summary.Dimensions,
     Definitions |-> {MetricDefinition(n, summary.Metrics[n]) : n \in DOMAIN summary.Metrics},
     Dimensions |-> summary.Dimensions,
     Metadata |-> summary.Metadata,
     Values |-> [n \in DOMAIN summary.Metrics |-> summary.Metrics[n].Value]]

\* MetricManager: the metric_summary handed to the provider
MetricSummary(m, metric_set) ==
    [Namespace |-> m.namespace, Metrics |-> metric_set,
     Dimensions |-> m.dimension_set, Metadata |-> m.metadata_set]

\* a limit test that looks at the number of names only
ReachedLimit_NamesOnly(metric_set, metric) ==
    Cardinality(DOMAIN metric_set) = MAX_METRICS

\* MetricManager.add_metric: the test that starts the flush
ReachedLimit(metric_set, metric) ==
    \/ Cardinality(DOMAIN metric_set) = MAX_METRICS
    \/ Len(metric.Value) = MAX_METRICS

\* MetricManager.add_metric on the object m at time t: the object afterwards,
\* the exception raised ("" for none) and the objects printed
AddMetricTo(m, name, unit, value, resolution, t) ==
    IF m.provider = "None"
    THEN [m |-> m, raised |-> "AttributeError", out |-> <<>>]
    ELSE
    LET metric == IF name \in DOMAIN m.metric_set THEN m.metric_set[name]
                  ELSE DefaultDictOfLists
        r == EMFAddMetric(metric, name, unit, value, resolution)
        metric_set == DictPut(m.metric_set, name, r.metric)
    IN
    IF r.raised # ""
    THEN [m |-> m, raised |-> r.raised, out |-> <<>>]
    ELSE IF ReachedLimit(metric_set, r.metric)
    THEN [m |-> [m EXCEPT !.metric_set = EmptyDict], raised |-> "",
          out |-> <<EMFSerialize(MetricSummary(m, metric_set), t)>>]
    ELSE [m |-> [m EXCEPT !.metric_set = metric_set], raised |-> "", out |-> <<>>]

\* a provider object the caller built and passes as the provider argument
\* (an EMFProvider of its own), and the one MetricManager.__init__ builds
GivenProvider == "EMFProvider(given)"
DefaultProvider == "EMFProvider"

\* MetricManager.__init__: the provider argument counts only when a
\* metadata_set is given, and without one the provider is an EMFProvider
NewMetricManager(dimension_set, metadata_set, provider) ==
    [kind |-> "MetricManager",
     is_cold_start |-> TRUE,
     namespace |-> "test_namespace",
     metric_set |-> EmptyDict,
     dimension_set |-> dimension_set,
     metadata_set |-> IF metadata_set # <<>> THEN metadata_set[1] ELSE EmptyDict,
     provider |-> IF metadata_set # <<>>
                  THEN (IF provider # <<>> THEN provider[1] ELSE "None")
                  ELSE DefaultProvider,
     provider_metrics |-> <<>>]

\* Metrics.__init__: the class-level dicts and the provider argument go to
\* MetricManager.__init__
NewMetrics(provider) == NewMetricManager(EmptyDict, <<EmptyDict>>, provider)

\* EphemeralMetrics.__init__: only the provider argument is passed on
NewEphemeralMetrics(provider) == NewMetricManager(EmptyDict, <<>>, provider)

DimensionSets == {EmptyDict, [n \in {"service"} |-> "test_service"]}
MetadataSets == {EmptyDict, [n \in {"username"} |-> "test"]}

\* a count per name, names of count 0 left out
Counts(names, count(_)) == [n \in {x \in names : count(x) # 0} |-> count(n)]
CountOf(u, n) == IF n \in DOMAIN u THEN u[n] ELSE 0

\* the values each name has in the objects printed: an EMF object holds the
\* values of its metrics, a DataDog line one value, null none
ValuesOf(obj) ==
    IF "Values" \in DOMAIN obj THEN [n \in DOMAIN obj.Values |-> Len(obj.Values[n])]
    ELSE IF "m" \in DOMAIN obj THEN [n \in {obj.m} |-> 1]
    ELSE EmptyDict

PrintedCounts(out) ==
    LET names == UNION {DOMAIN ValuesOf(out[i]) : i \in 1..Len(out)}
        In(i, n) == CountOf(ValuesOf(out[i]), n)
        RECURSIVE Sum(_, _)
        Sum(i, n) == IF i = 0 THEN 0 ELSE In(i, n) + Sum(i - 1, n)
    IN Counts(names, LAMBDA n : Sum(Len(out), n))

\* the values accepted by add_metric and not printed so far, after a step
\* that added the names in added (a sequence) and printed out
Unpublished(u, added, out) ==
    LET p == PrintedCounts(out)
        a(n) == Cardinality({i \in 1..Len(added) : added[i] = n})
    IN Counts(DOMAIN u \cup DOMAIN p \cup {added[i] : i \in 1..Len(added)},
              LAMBDA n : CountOf(u, n) + a(n) - CountOf(p, n))

\* how the latest call ended: the operation, its metric name and value, and
\* the exception it raised
NoCall == [op |-> "none", name |-> "", value |-> 0, raised |-> ""]

NothingPrinted == [out |-> <<>>, unpublished |-> EmptyDict, last |-> NoCall]

NoInvocation == [pc |-> "idle"]
NoDecorator == [kind |-> "none"]

\* the i-th metric name
MetricName(i) == "metric_" \o ToString(i)

\* the names a call may use: the first name, or the first name not in the set
NamesToAdd(metric_set) == {MetricName(1), MetricName(Cardinality(DOMAIN metric_set) + 1)}
MetricValues == {1}

InitMetrics ==
    /\ now = 0
    /\ redis = EmptyDict
    /\ inv = NoInvocation
    /\ cfg = NoDecorator
    /\ hist = NothingPrinted
    /\ \E d \in DimensionSets, md \in {<<>>} \cup {<<x>> : x \in MetadataSets},
          p \in {<<>>, <<GivenProvider>>} :
          metrics = NewMetricManager(d, md, p)

\* metrics.add_metric(name=name, unit="Count", value=value)
AddMetric(name, value) ==
    LET r == AddMetricTo(metrics, name, CountUnit, value, StandardResolution, now)
        added == IF r.raised = "" THEN <<name>> ELSE <<>>
    IN
    /\ metrics' = r.m
    /\ hist' = [out |-> r.out,
                unpublished |-> Unpublished(hist.unpublished, added, r.out),
                last |-> [op |-> "add_metric", name |-> name, value |-> value,
                          raised |-> r.raised]]
    /\ UNCHANGED <<now, redis, inv, cfg>>

NextMetrics ==
    \E name \in NamesToAdd(metrics.metric_set), value \in MetricValues : AddMetric(name, value)

SpecMetrics == InitMetrics /\ [][NextMetrics]_vars

\* what the set holds, as a count of values per name
Held(metric_set) == [n \in DOMAIN metric_set |-> Len(metric_set[n].Value)]

\* the call add_metric(name) on metric_set reaches the limit
Reaches(metric_set, name) ==
    \/ Cardinality(DOMAIN metric_set \cup {name}) = MAX_METRICS
    \/ CountOf(Held(metric_set), name) + 1 = MAX_METRICS

(* C28  Metric limit: after any sequence of add_metric calls, every value  *)
(* accepted is either in metric_set or has been printed, metric_set holds  *)
(* fewer than MAX_METRICS names and every metric fewer than MAX_METRICS    *)
(* values; the call that reaches the limit prints one object with the      *)
(* whole accumulated set, its own value included, and empties metric_set,  *)
(* leaving dimension_set and metadata_set as they were.                    *)

C28_MetricLimit ==
    /\ [](/\ Cardinality(DOMAIN metrics.metric_set) < MAX_METRICS
          /\ \A n \in DOMAIN metrics.metric_set :
                Len(metrics.metric_set[n].Value) < MAX_METRICS
          /\ hist.unpublished = Held(metrics.metric_set))
    /\ [][(/\ hist'.last.op = "add_metric"
           /\ hist'.last.raised = ""
           /\ Reaches(metrics.metric_set, hist'.last.name))
          => /\ metrics'.metric_set = EmptyDict
             /\ Len(hist'.out) = 1
             /\ PrintedCounts(hist'.out) =
                   Unpublished(hist.unpublished, <<hist'.last.name>>, <<>>)
             /\ hist'.out[1].Dimensions = metrics.dimension_set
             /\ hist'.out[1].Metadata = metrics.metadata_set
             /\ metrics'.dimension_set = metrics.dimension_set
             /\ metrics'.metadata_set = metrics.metadata_set]_vars

\* a call has just printed MAX_METRICS metric names and emptied the set
C28_Witness ==
    /\ hist.last.op = "add_metric"
    /\ Len(hist.out) = 1
    /\ Cardinality(DOMAIN hist.out[1].Values) = MAX_METRICS
    /\ metrics.metric_set = EmptyDict
    /\ metrics.dimension_set # EmptyDict

----------------------------------------------------------------------------
(* log_metrics: a decorated handler, invoked several times in one process. *)
(* The metrics object is a MetricManager (Metrics or EphemeralMetrics) or  *)
(* the DataDogMetrics of metrics/provider/datadog_provider_test.py; cfg    *)
(* holds the decorator's arguments and inv the position of the invocation. *)

MaxAdds == 2
MaxInvocations == 3

\* MetricsProvider.Enable_Single_Metrics
Enable_Single_Metrics == TRUE

ColdStart == "ColdStart"
HandlerError == "HandlerError"

\* what print(json.dumps(None)) writes
JsonNull == [null |-> TRUE]

\* DataDogMetrics(provider=DataDogProvider(namespace))
NewDataDogMetrics ==
    [kind |-> "DataDogMetrics",
     is_cold_start |-> TRUE,
     namespace |-> "test_namespace",
     metric_set |-> EmptyDict,
     dimension_set |-> EmptyDict,
     metadata_set |-> EmptyDict,
     provider |-> "DataDogProvider",
     provider_metrics |-> <<>>]

\* DataDogProvider.serialize: the name a metric is printed under
QualifiedName(namespace, name) == namespace \o "." \o name

\* DataDogMetrics.add_metric and DataDogProvider.add_metric
DataDogAddMetric(m, name, value, timestamp) ==
    [m EXCEPT !.provider_metrics =
        Append(@, [m |-> name, v |-> value, e |-> timestamp, t |-> <<>>])]

\* DataDogProvider.serialize
DataDogSerialize(m) ==
    [List |-> [i \in 1..Len(m.provider_metrics) |->
                  [m |-> QualifiedName(m.namespace, m.provider_metrics[i].m),
                   v |-> m.provider_metrics[i].v,
                   e |-> m.provider_metrics[i].e,
                   t |-> m.provider_metrics[i].t]]]

\* MetricManager.clear_metrics
ClearMetrics(m) ==
    [m EXCEPT !.metric_set = EmptyDict, !.dimension_set = EmptyDict,
              !.metadata_set = EmptyDict]

\* "if not metrics" on the dict that DataDogProvider.serialize returns: a
\* dict with the key "List" is never empty
IsEmptyDict(d) == DOMAIN d = {}

\* the finally block of decorate: DataDogMetrics.flush_metrics, or the
\* finally block of MetricManager.log_metrics.  raised is the exception the
\* block itself raises ("" for none), warned whether it called warnings.warn.
FlushMetricsOf(m, raise_on_empty_metrics, t) ==
    IF m.kind = "DataDogMetrics"
    THEN [m |-> [m EXCEPT !.provider_metrics = <<>>], raised |-> "",
          warned |-> IsEmptyDict(DataDogSerialize(m)) /\ raise_on_empty_metrics,
          out |-> DataDogSerialize(m).List]
    ELSE IF ~raise_on_empty_metrics /\ m.metric_set = EmptyDict
    THEN [m |-> m, raised |-> "", warned |-> TRUE, out |-> <<>>]
    ELSE IF m.provider = "None"
    THEN [m |-> m, raised |-> "AttributeError", warned |-> FALSE, out |-> <<>>]
    ELSE [m |-> ClearMetrics(m), raised |-> "", warned |-> FALSE,
          out |-> <<EMFSerialize(MetricSummary(m, m.metric_set), t)>>]

\* _add_cold_start_metric: MetricsBase reads a global its module never
\* defines; MetricManager hands the provider a plain dict and assigns into
\* a metric_set that is None, and its finally block prints the result None.
\* added: the metric names the step accepted.
ColdStartMetricOf(m, t) ==
    IF m.kind = "DataDogMetrics"
    THEN [m |-> m, raised |-> "NameError", out |-> <<>>, added |-> <<>>]
    ELSE IF ~m.is_cold_start
    THEN [m |-> m, raised |-> "", out |-> <<>>, added |-> <<>>]
    ELSE IF m.provider = "None"
    THEN [m |-> m, raised |-> "AttributeError", out |-> <<>>, added |-> <<>>]
    ELSE IF Enable_Single_Metrics
    THEN LET r == EMFAddMetric(PlainDict, ColdStart, CountUnit, 1, StandardResolution)
         IN [m |-> m,
             raised |-> IF r.raised # "" THEN r.raised ELSE "TypeError",
             out |-> <<JsonNull>>, added |-> <<>>]
    ELSE LET r == AddMetricTo(m, ColdStart, CountUnit, 1, StandardResolution, t)
         IN IF r.raised # ""
            THEN [m |-> r.m, raised |-> r.raised, out |-> r.out, added |-> <<>>]
            ELSE [m |-> [r.m EXCEPT !.is_cold_start = FALSE], raised |-> "",
                  out |-> r.out, added |-> <<ColdStart>>]

\* the ColdStart metrics in the objects printed
ColdStartsIn(out) ==
    LET p == PrintedCounts(out)
    IN Cardinality({n \in DOMAIN p : n = ColdStart \/ n = QualifiedName("test_namespace", ColdStart)})

\* how the latest decorated call ended: the exception that left it, the
\* exception its handler raised ("" for none), the add_metric calls of the
\* handler that were accepted, and whether the finally block warned
NotEndedYet == [op |-> "none", raised |-> "", handler |-> "", adds |-> 0, warned |-> FALSE]

\* returned: the invocations whose handler returned, and cold: the ColdStart
\* metrics printed, both since the process started or the flag was last
\* reset; calls: the invocations started
\* built: the class of the metrics object and its provider argument
NoLogHistory ==
    [out |-> <<>>, unpublished |-> EmptyDict, last |-> NotEndedYet,
     returned |-> 0, cold |-> 0, calls |-> 0,
     built |-> [class |-> "", provider |-> <<>>]]

IdleInvocation == [pc |-> "idle", raised |-> "", handler |-> "", adds |-> 0]

InitLogMetrics ==
    /\ now = 0
    /\ redis = EmptyDict
    /\ inv = IdleInvocation
    /\ \E c \in BOOLEAN, e \in BOOLEAN :
          cfg = [capture_cold_start_metric |-> c, raise_on_empty_metrics |-> e]
    /\ \/ /\ metrics = NewDataDogMetrics
          /\ hist = [NoLogHistory EXCEPT !.built =
                        [class |-> "DataDogMetrics", provider |-> <<"DataDogProvider">>]]
       \/ \E p \in {<<>>, <<GivenProvider>>} :
             /\ metrics = NewMetrics(p)
             /\ hist = [NoLogHistory EXCEPT !.built = [class |-> "Metrics", provider |-> p]]
       \/ \E p \in {<<>>, <<GivenProvider>>} :
             /\ metrics = NewEphemeralMetrics(p)
             /\ hist = [NoLogHistory EXCEPT !.built =
                           [class |-> "EphemeralMetrics", provider |-> p]]

\* what a step adds to the history
Logged(added, out, last) ==
    [hist EXCEPT !.out = out,
                 !.unpublished = Unpublished(@, added, out),
                 !.last = last,
                 !.cold = @ + ColdStartsIn(out)]

\* the runtime calls the decorated handler
Invoke ==
    /\ inv.pc = "idle"
    /\ hist.calls < MaxInvocations
    /\ inv' = [IdleInvocation EXCEPT !.pc = "handler"]
    /\ hist' = [Logged(<<>>, <<>>, NotEndedYet) EXCEPT !.calls = @ + 1]
    /\ UNCHANGED <<now, redis, cfg, metrics>>

\* the handler calls metrics.add_metric; an exception of the call ends the handler
HandlerAddsMetric(name, value) ==
    /\ inv.pc = "handler"
    /\ inv.adds < MaxAdds
    /\ LET r == IF metrics.kind = "DataDogMetrics"
                THEN [m |-> DataDogAddMetric(metrics, name, value, now), raised |-> "",
                      out |-> <<>>]
                ELSE AddMetricTo(metrics, name, CountUnit, value, StandardResolution, now)
           added == IF r.raised # "" THEN <<>>
                    ELSE IF metrics.kind = "DataDogMetrics"
                    THEN <<QualifiedName(metrics.namespace, name)>>
                    ELSE <<name>>
       IN
       /\ metrics' = r.m
       /\ inv' = IF r.raised # ""
                 THEN [inv EXCEPT !.pc = "finally", !.raised = r.raised, !.handler = r.raised]
                 ELSE [inv EXCEPT !.adds = @ + 1]
       /\ hist' = Logged(added, r.out, NotEndedYet)
    /\ UNCHANGED <<now, redis, cfg>>

\* response = lambda_handler(event, context) returns
HandlerReturns ==
    /\ inv.pc = "handler"
    /\ inv' = [inv EXCEPT !.pc = IF cfg.capture_cold_start_metric THEN "cold_start"
                                 ELSE "finally"]
    /\ hist' = [Logged(<<>>, <<>>, NotEndedYet) EXCEPT !.returned = @ + 1]
    /\ UNCHANGED <<now, redis, cfg, metrics>>

\* lambda_handler(event, context) raises
HandlerRaises ==
    /\ inv.pc = "handler"
    /\ inv' = [inv EXCEPT !.pc = "finally", !.raised = HandlerError, !.handler = HandlerError]
    /\ hist' = Logged(<<>>, <<>>, NotEndedYet)
    /\ UNCHANGED <<now, redis, cfg, metrics>>

\* self._add_cold_start_metric(context=context)
AddColdStartMetric ==
    /\ inv.pc = "cold_start"
    /\ LET r == ColdStartMetricOf(metrics, now)
       IN
       /\ metrics' = r.m
       /\ inv' = [inv EXCEPT !.pc = "finally", !.raised = r.raised]
       /\ hist' = Logged(r.added, r.out, NotEndedYet)
    /\ UNCHANGED <<now, redis, cfg>>

\* the finally block; then decorate returns the response or the exception
\* in flight leaves it
FlushMetrics ==
    /\ inv.pc = "finally"
    /\ LET r == FlushMetricsOf(metrics, cfg.raise_on_empty_metrics, now)
       IN
       /\ metrics' = r.m
       /\ inv' = IdleInvocation
       /\ hist' = Logged(<<>>, r.out,
                         [op |-> "log_metrics",
                          raised |-> IF r.raised # "" THEN r.raised ELSE inv.raised,
                          handler |-> inv.handler,
                          adds |-> inv.adds,
                          warned |-> r.warned])
    /\ UNCHANGED <<now, redis, cfg>>

\* reset_cold_start_flag()
ResetColdStartFlag ==
    /\ inv.pc = "idle"
    /\ metrics' = IF ~metrics.is_cold_start THEN [metrics EXCEPT !.is_cold_start = TRUE]
                  ELSE metrics
    /\ hist' = [Logged(<<>>, <<>>, NotEndedYet) EXCEPT !.returned = 0, !.cold = 0]
    /\ UNCHANGED <<now, redis, inv, cfg>>

HandlerMetrics == {"SuccessfulBooking", "BookingConfirmation"}

NextLogMetrics ==
    \/ Invoke
    \/ \E name \in HandlerMetrics, value \in MetricValues : HandlerAddsMetric(name, value)
    \/ HandlerReturns
    \/ HandlerRaises
    \/ AddColdStartMetric
    \/ FlushMetrics
    \/ ResetColdStartFlag

SpecLogMetrics == InitLogMetrics /\ [][NextLogMetrics]_vars

(* C29  When a decorated invocation ends, whether its handler returned or  *)
(* raised, every metric value accepted during it has been printed exactly  *)
(* once, the metric store is empty, and an exception of the handler is the *)
(* exception the caller receives.                                          *)

C29_FlushedAtEnd ==
    hist.last.op = "log_metrics" =>
        /\ hist.unpublished = EmptyDict
        /\ metrics.metric_set = EmptyDict
        /\ metrics.provider_metrics = <<>>
        /\ (hist.last.handler # "" => hist.last.raised = hist.last.handler)

(* C30  Cold start is recorded once: with capture_cold_start_metric=True,  *)
(* once a decorated handler has returned since the process started or      *)
(* since reset_cold_start_flag() was last called, exactly one ColdStart    *)
(* metric has been printed since then.                                     *)

C30_ColdStartOnce ==
    (/\ cfg.capture_cold_start_metric
     /\ hist.last.op = "log_metrics"
     /\ hist.returned >= 1)
    => hist.cold = 1

(* C31  An invocation that ends with no metric added publishes nothing;   *)
(* with raise_on_empty_metrics=True it ends with an exception, and with    *)
(* raise_on_empty_metrics=False its finally block warns.                   *)

C31_EmptyMetrics ==
    (hist.last.op = "log_metrics" /\ hist.last.adds = 0) =>
        /\ hist.out = <<>>
        /\ IF cfg.raise_on_empty_metrics THEN hist.last.raised # ""
           ELSE hist.last.warned

(* C32  Provider selection: a Metrics or EphemeralMetrics object built    *)
(* with a provider argument has that provider, one built without has the   *)
(* EMF provider that the constructor builds, and none has no provider.     *)

C32_ProviderSelection ==
    hist.built.class \in {"Metrics", "EphemeralMetrics"} =>
        /\ metrics.provider # "None"
        /\ hist.built.provider # <<>> => metrics.provider = hist.built.provider[1]
        /\ hist.built.provider = <<>> => metrics.provider = DefaultProvider

----------------------------------------------------------------------------
(* add_dimension on a Metrics or EphemeralMetrics object.                  *)

\* MetricsProvider.MAX_DIMENSIONS
MAX_DIMENSIONS == 29

\* values handed to add_dimension: a str, or an int that the provider casts
StrValue(s) == [type |-> "str", s |-> s]
IntValue(i) == [type |-> "int", i |-> i]
DimensionValues == {StrValue("confirm_booking"), IntValue(1)}

\* EMFProvider.add_dimension: value if isinstance(value, str) else str(value)
EMFAddDimension(name, value) ==
    [name |-> name, value |-> IF value.type = "str" THEN value.s ELSE ToString(value.i)]

\* a limit test that lets the set grow to one entry more
DimensionsFull_Above(dimension_set) ==
    Cardinality(DOMAIN dimension_set) > MAX_DIMENSIONS

\* MetricManager.add_dimension: the test that refuses the dimension
DimensionsFull(dimension_set) ==
    Cardinality(DOMAIN dimension_set) = MAX_DIMENSIONS

\* MetricManager.add_dimension on the object m: the object afterwards and the
\* exception raised ("" for none)
AddDimensionTo(m, name, value) ==
    IF m.provider = "None"
    THEN [m |-> m, raised |-> "AttributeError"]
    ELSE IF DimensionsFull(m.dimension_set)
    THEN [m |-> m, raised |-> "SchemaValidationError"]
    ELSE LET d == EMFAddDimension(name, value)
         IN [m |-> [m EXCEPT !.dimension_set = DictPut(@, d.name, d.value)],
             raised |-> ""]

\* the i-th dimension name
DimensionName(i) == "dimension_" \o ToString(i)

\* the calls made: the first name with either value (a dimension set again
\* once it exists), or the first name not in the set with the str value
DimensionsToAdd(dimension_set) ==
    {<<DimensionName(1), v>> : v \in DimensionValues}
        \cup {<<DimensionName(Cardinality(DOMAIN dimension_set) + 1),
                StrValue("confirm_booking")>>}

InitDimensions ==
    /\ now = 0
    /\ redis = EmptyDict
    /\ inv = NoInvocation
    /\ cfg = NoDecorator
    /\ hist = NothingPrinted
    /\ \E p \in {<<>>, <<GivenProvider>>} :
          \/ metrics = NewMetrics(p)
          \/ metrics = NewEphemeralMetrics(p)

\* metrics.add_dimension(name=name, value=value)
AddDimension(name, value) ==
    LET r == AddDimensionTo(metrics, name, value)
    IN
    /\ metrics' = r.m
    /\ hist' = [hist EXCEPT !.last = [op |-> "add_dimension", name |-> name,
                                      value |-> value, raised |-> r.raised]]
    /\ UNCHANGED <<now, redis, inv, cfg>>

NextDimensions ==
    \E d \in DimensionsToAdd(metrics.dimension_set) : AddDimension(d[1], d[2])

SpecDimensions == InitDimensions /\ [][NextDimensions]_vars

(* C33  Dimension limit: dimension_set never holds more than               *)
(* MAX_DIMENSIONS entries, and an add_dimension call on an object whose    *)
(* dimension_set holds MAX_DIMENSIONS entries raises SchemaValidationError *)
(* and leaves dimension_set as it was.                                     *)

C33_DimensionLimit ==
    /\ [](Cardinality(DOMAIN metrics.dimension_set) <= MAX_DIMENSIONS)
    /\ [][(/\ hist'.last.op = "add_dimension"
           /\ Cardinality(DOMAIN metrics.dimension_set) = MAX_DIMENSIONS)
          => /\ hist'.last.raised = "SchemaValidationError"
             /\ metrics'.dimension_set = metrics.dimension_set]_vars

\* a call has just been refused on a full dimension_set
C33_Witness ==
    /\ hist.last.op = "add_dimension"
    /\ hist.last.raised = "SchemaValidationError"
    /\ Cardinality(DOMAIN metrics.dimension_set) = MAX_DIMENSIONS

----------------------------------------------------------------------------
(* Data masking: AwsEncryptionSdkProvider.encrypt and decrypt.             *)

\* the KMS keys of the provider that decrypts, and a key it does not have
ProviderKeys == {"kms_key1"}
OtherKeys == {"kms_key2"}

\* encryption contexts: the dicts over these keys and values
ContextKeys == {"this", "not"}
ContextValues == {"is_secure", "same_context"}
Contexts == UNION {[S -> ContextValues] : S \in SUBSET ContextKeys}

\* the data handed to encrypt
Plaintexts == {"value", "other_value"}

\* provider_options of a call: none, or encryption_context=context
NoOptions == EmptyDict
WithContext(context) == [encryption_context |-> context]
ProviderOptions == {NoOptions} \cup {WithContext(c) : c \in Contexts}

\* base64.b64encode(...).decode() and base64.b64decode
B64Encode(b) == [b64 |-> b]
B64Decode(s) == s.b64

\* EncryptionSDKClient.encrypt: the message carries the context in its header
\* (an empty one when the call gives none) and needs the key to be opened
ClientEncrypt(source, key, provider_options) ==
    [key |-> key, source |-> source,
     encryption_context |-> IF "encryption_context" \in DOMAIN provider_options
                            THEN provider_options.encryption_context
                            ELSE EmptyDict]

\* EncryptionSDKClient.decrypt with a key provider over the keys
ClientDecrypt(source, keys) ==
    IF source.key \in keys
    THEN [raised |-> "", ciphertext |-> <<source.source>>,
          decryptor_header |-> [encryption_context |-> source.encryption_context]]
    ELSE [raised |-> "DecryptKeyError", ciphertext |-> <<>>,
          decryptor_header |-> [encryption_context |-> EmptyDict]]

\* AwsEncryptionSdkProvider.encrypt
ProviderEncrypt(key, data, provider_options) ==
    B64Encode(ClientEncrypt(data, key, provider_options))

\* a comparison of the two contexts as wholes
ContextMismatch_Equal(expected_context, encryption_context) ==
    expected_context # encryption_context

\* the loop of decrypt: some expected key whose .get() differs from the value
ContextMismatch(expected_context, encryption_context) ==
    \E key \in DOMAIN expected_context :
        DictGet(encryption_context, key) # <<expected_context[key]>>

\* AwsEncryptionSdkProvider.decrypt: the exception raised ("" for none) and
\* the value returned
ProviderDecrypt(keys, data, provider_options) ==
    LET ciphertext_decoded == B64Decode(data)
        expected_context == IF "encryption_context" \in DOMAIN provider_options
                            THEN provider_options.encryption_context
                            ELSE EmptyDict
        r == ClientDecrypt(ciphertext_decoded, keys)
    IN
    IF r.raised # ""
    THEN [raised |-> r.raised, returned |-> <<>>]
    ELSE IF ContextMismatch(expected_context, r.decryptor_header.encryption_context)
    THEN [raised |-> "ValueError", returned |-> <<>>]
    ELSE [raised |-> "", returned |-> r.ciphertext]

\* history: what the data in hand was made of, and the last decrypt call
NoDecrypt == [op |-> "none", provider_options |-> NoOptions, raised |-> "",
              returned |-> <<>>]
NothingEncrypted == [made |-> <<>>, last |-> NoDecrypt]

InitDecrypt ==
    /\ now = 0
    /\ redis = EmptyDict
    /\ metrics = NoMetrics
    /\ cfg = [kind |-> "AwsEncryptionSdkProvider", keys |-> ProviderKeys]
    /\ inv = NoInvocation
    /\ hist = NothingEncrypted

\* data_masker.encrypt(value, **provider_options), by the provider itself or
\* by a provider built over another key
Encrypt(key, data, provider_options) ==
    /\ inv' = [pc |-> "encrypted", data |-> ProviderEncrypt(key, data, provider_options)]
    /\ hist' = [made |-> <<[key |-> key, data |-> data,
                            provider_options |-> provider_options]>>,
                last |-> NoDecrypt]
    /\ UNCHANGED <<now, redis, cfg, metrics>>

\* data_masker.decrypt(encrypted_data, **provider_options)
Decrypt(provider_options) ==
    /\ inv.pc = "encrypted"
    /\ LET r == ProviderDecrypt(cfg.keys, inv.data, provider_options)
       IN hist' = [hist EXCEPT !.last = [op |-> "decrypt",
                                         provider_options |-> provider_options,
                                         raised |-> r.raised,
                                         returned |-> r.returned]]
    /\ UNCHANGED <<now, redis, cfg, metrics, inv>>

NextDecrypt ==
    \/ \E key \in cfg.keys \cup OtherKeys, data \in Plaintexts, o \in ProviderOptions :
          Encrypt(key, data, o)
    \/ \E o \in ProviderOptions : Decrypt(o)

SpecDecrypt == InitDecrypt /\ [][NextDecrypt]_vars

(* C34  decrypt with an expected encryption_context, on data encrypted     *)
(* under the provider's key: ValueError when some expected key is missing  *)
(* from the context the data was encrypted with (none given counts as an   *)
(* empty one) or has another value there; the plaintext otherwise.         *)

C34_ExpectedContext ==
    (/\ hist.last.op = "decrypt"
     /\ "encryption_context" \in DOMAIN hist.last.provider_options
     /\ hist.made[1].key \in cfg.keys)
    => LET expected == hist.last.provider_options.encryption_context
           given == hist.made[1].provider_options
           carried == IF "encryption_context" \in DOMAIN given
                      THEN given.encryption_context ELSE EmptyDict
       IN IF \E k \in DOMAIN expected :
                k \notin DOMAIN carried \/ carried[k] # expected[k]
          THEN hist.last.raised = "ValueError"
          ELSE /\ hist.last.raised = ""
               /\ hist.last.returned = <<hist.made[1].data>>

\* data encrypted with no context was refused with ValueError by a decrypt
\* that expected one
C34_Witness ==
    /\ hist.last.op = "decrypt"
    /\ hist.last.raised = "ValueError"
    /\ hist.made[1].key \in cfg.keys
    /\ hist.made[1].provider_options = NoOptions
    /\ "encryption_context" \in DOMAIN hist.last.provider_options

\* data encrypted with a context was returned by a decrypt that expected
\* a part of that context
C34_WitnessReturned ==
    /\ hist.last.op = "decrypt"
    /\ hist.last.raised = ""
    /\ hist.last.returned = <<hist.made[1].data>>
    /\ "encryption_context" \in DOMAIN hist.last.provider_options
    /\ hist.last.provider_options.encryption_context # EmptyDict
    /\ hist.made[1].provider_options # NoOptions
    /\ hist.made[1].provider_options.encryption_context
           # hist.last.provider_options.encryption_context

----------------------------------------------------------------------------
(* C35  Every write of a record carries a TTL: a stored record always has  *)
(* an expiry in the store.  The TTL of a write is the expiry_timestamp of  *)
(* the record written minus the clock in whole seconds as the call read it *)
(* for the TTL (for the forced overwrite: with the conditional create),    *)
(* which is the configured expiry window; without an expiry_timestamp the  *)
(* TTL computed is expires_after_seconds.                                  *)

\* the seconds the entry of k has to live at instant t
TtlAt(store, k, t) == (store[k].exp - t) \div MsPerSec

----------------------------------------------------------------------------
(* The expiry window configured after the layer was constructed.           *)

\* expiry windows below and above the cap of the lock TTL
WindowsInForce == ExpiryWindows \cup {2 * OrphanLockSeconds}

\* RedisCachePersistenceLayer.__init__: the lock TTL is computed here, from
\* the window the layer has at that moment
InitConstructed ==
    /\ now = 0
    /\ redis = [n \in StoreNames |-> NoEntry]
    /\ inv = [c \in Callers |-> IdleInv]
    /\ \E w \in WindowsInForce :
          cfg = [expires_after_seconds |-> w,
                 orphan_lock_timeout |-> OrphanLockTimeout(w),
                 payload_validation_enabled |-> FALSE]
    /\ hist = NoHistory
    /\ metrics = NoMetrics

\* the engine configures the layer before its first call: the window changes,
\* nothing else of the layer does
Configure(w) ==
    /\ hist.saves = 0
    /\ \A c \in Callers : inv[c].pc = "idle"
    /\ cfg.expires_after_seconds # w
    /\ cfg' = [cfg EXCEPT !.expires_after_seconds = w]
    /\ UNCHANGED <<now, redis, inv, hist, metrics>>

NextConfigure ==
    \/ \E w \in WindowsInForce : Configure(w)
    \/ \E c \in Callers, k \in Keys, h \in Hashes, rem \in RemainingMs :
          SaveInProgress(c, k, h, rem, TRUE)
    \/ \E c \in Callers : ReadExisting(c, TRUE)
    \/ \E c \in Callers : AcquireLock(c, TRUE)
    \/ \E c \in Callers : OverwriteOrphan(c, TRUE)
    \/ \E c \in Callers : Abandon(c)
    \/ Tick

SpecConfigure == InitConstructed /\ [][NextConfigure]_vars

(* C36  The TTL of the orphan-recovery lock is min(10 seconds, the expiry  *)
(* window in force when the lock is taken), also when the window was       *)
(* configured after the layer was constructed.                             *)

C36_LockTtl ==
    [][\A k \in Keys :
         (/\ redis'[LockName(k)].present
          /\ redis'[LockName(k)] # redis[LockName(k)])
         => TtlAt(redis', LockName(k), now)
               = Min(OrphanLockSeconds, cfg.expires_after_seconds)]_vars

----------------------------------------------------------------------------
(* A stored IN_PROGRESS record without an in-progress deadline.            *)

\* the text of a mapping in which the names in nulls are stored as null:
\* item.get() of a null gives None, as for a name that is missing
JsonDumpsWithNull(m, nulls) == [txt |-> "object", obj |-> m, nulls |-> nulls]

\* an IN_PROGRESS record whose deadline is missing, null or 0
NoDeadlineForms == {"absent", "null", "0"}
NoDeadlineText(form, expiry) ==
    LET base == (status_attr :> STATUS_INPROGRESS) @@ (expiry_attr :> expiry) IN
    IF form = "absent" THEN JsonDumps(base)
    ELSE IF form = "null" THEN JsonDumpsWithNull(base, {in_progress_expiry_attr})
    ELSE JsonDumps(base @@ (in_progress_expiry_attr :> 0))

\* the store holds such a record for every key, written at instant 0 with the
\* TTL of the expiry window
InitNoDeadline ==
    /\ now = 0
    /\ inv = [c \in Callers |-> IdleInv]
    /\ \E w \in ExpiryWindows :
          /\ cfg = [expires_after_seconds |-> w,
                    orphan_lock_timeout |-> OrphanLockTimeout(w),
                    payload_validation_enabled |-> FALSE]
          /\ \E form \in NoDeadlineForms :
                redis = [n \in StoreNames |->
                            IF n \in Keys
                            THEN [present |-> TRUE, val |-> NoDeadlineText(form, w),
                                  exp |-> w * MsPerSec]
                            ELSE NoEntry]
    /\ hist = [NoHistory EXCEPT !.lastWrite = [k \in Keys |-> "foreign"],
                                !.open = FALSE]
    /\ metrics = NoMetrics

NextNoDeadline ==
    \/ \E c \in Callers, k \in Keys, h \in Hashes, rem \in RemainingMs :
          SaveInProgress(c, k, h, rem, TRUE)
    \/ \E c \in Callers : ReadExisting(c, TRUE)
    \/ \E c \in Callers : AcquireLock(c, TRUE)
    \/ \E c \in Callers : OverwriteOrphan(c, TRUE)
    \/ \E c \in Callers : Abandon(c)
    \/ Tick

SpecNoDeadline == InitNoDeadline /\ [][NextNoDeadline]_vars

\* the value stored for k is an IN_PROGRESS record without a deadline
StoredNoDeadline(store, k) ==
    /\ store[k].present
    /\ store[k].val.txt = "object"
    /\ status_attr \in DOMAIN store[k].val.obj
    /\ store[k].val.obj[status_attr] = STATUS_INPROGRESS
    /\ \/ in_progress_expiry_attr \notin DOMAIN store[k].val.obj
       \/ store[k].val.obj[in_progress_expiry_attr] = 0

(* C37  A stored IN_PROGRESS record without an in-progress deadline (the   *)
(* field missing, null or 0) is an orphan for save_in_progress: the call   *)
(* that reads it goes on to the lock, takes it when K:lock is free, and    *)
(* its overwrite then stores its own record and returns success.           *)

C37_NoDeadlineIsOrphan ==
    [][\A c \in Callers :
         /\ (/\ inv[c].pc = "get"
             /\ inv'[c] # inv[c]
             /\ StoredNoDeadline(redis, inv[c].key))
            => inv'[c].pc = "lock"
         /\ (/\ inv[c].pc = "lock"
             /\ inv'[c] # inv[c]
             /\ ~redis[LockName(inv[c].key)].present)
            => inv'[c].pc = "set"
         /\ (/\ inv[c].pc = "set"
             /\ inv'[c] # inv[c])
            => /\ hist'.last.op = "save"
               /\ hist'.last.res = "Success"
               /\ redis'[inv[c].key].present
               /\ redis'[inv[c].key].val = JsonDumps(inv[c].item)]_vars

\* a call has overwritten the stored record without a deadline and returned
\* success
C37_Witness ==
    /\ hist.last.op = "save"
    /\ hist.last.via = "recover"
    /\ hist.last.res = "Success"
    /\ hist.last.prev = "foreign"

----------------------------------------------------------------------------
(* C38  The lease comparison is strict and uses the time read at the start *)
(* of save_in_progress: the read of a stored IN_PROGRESS record with a     *)
(* deadline ends the call with ItemAlreadyExists exactly when the deadline *)
(* (milliseconds) is greater than that time in milliseconds; otherwise,    *)
(* also at a deadline equal to it, the call goes on to the lock.           *)

\* the value stored for k is an unexpired IN_PROGRESS record with a deadline
StoredWithDeadline(store, k, t) ==
    /\ store[k].present
    /\ store[k].val.txt = "object"
    /\ status_attr \in DOMAIN store[k].val.obj
    /\ store[k].val.obj[status_attr] = STATUS_INPROGRESS
    /\ NowSeconds(t) <= store[k].val.obj[expiry_attr]
    /\ in_progress_expiry_attr \in DOMAIN store[k].val.obj
    /\ store[k].val.obj[in_progress_expiry_attr] # 0

C38_StrictLease ==
    [][\A c \in Callers :
         (/\ inv[c].pc = "get"
          /\ inv'[c] # inv[c]
          /\ StoredWithDeadline(redis, inv[c].key, now))
         => IF redis[inv[c].key].val.obj[in_progress_expiry_attr] > NowMillis(inv[c].now)
            THEN /\ inv'[c].pc = "idle"
                 /\ hist'.last.op = "save"
                 /\ hist'.last.res = "ItemAlreadyExists"
            ELSE inv'[c].pc = "lock"]_vars

\* a call that started in the very millisecond of the stored deadline has
\* read the record and gone on to the lock
C38_Witness ==
    \E c \in Callers :
        /\ inv[c].pc = "lock"
        /\ StoredWithDeadline(redis, inv[c].key, now)
        /\ redis[inv[c].key].val.obj[in_progress_expiry_attr] = NowMillis(inv[c].now)

\* a call that started before the stored deadline has read the record after
\* the deadline and ended with ItemAlreadyExists
C38_WitnessStartTime ==
    /\ hist.last.op = "save"
    /\ hist.last.res = "ItemAlreadyExists"
    /\ hist.last.via = "live"
    /\ StoredWithDeadline(redis, hist.last.key, now)
    /\ redis[hist.last.key].val.obj[in_progress_expiry_attr] <= NowMillis(now)

----------------------------------------------------------------------------
(* The forced overwrite fails after the lock was taken.                    *)

\* the clock moves in steps of half the lock TTL, up to MaxWaitSec
MaxWaitSec == 15
WaitMs == (OrphanLockSeconds \div 2) * MsPerSec

\* an expiry window longer than the lock TTL: the orphan outlives the lock
LongWindow == 2 * OrphanLockSeconds

\* the store holds for every key the record of an invocation without a
\* deadline that has died; no lock is held
InitOrphan ==
    /\ now = 0
    /\ inv = [c \in Callers |-> IdleInv]
    /\ cfg = [expires_after_seconds |-> LongWindow,
              orphan_lock_timeout |-> OrphanLockTimeout(LongWindow),
              payload_validation_enabled |-> FALSE]
    /\ redis = [n \in StoreNames |->
                  IF n \in Keys
                  THEN [present |-> TRUE, val |-> NoDeadlineText("absent", LongWindow),
                        exp |-> LongWindow * MsPerSec]
                  ELSE NoEntry]
    /\ hist = [NoHistory EXCEPT !.lastWrite = [k \in Keys |-> "foreign"],
                                !.open = FALSE]
    /\ metrics = NoMetrics

Wait ==
    /\ NowSeconds(now + WaitMs) <= MaxWaitSec
    /\ now' = now + WaitMs
    /\ redis' = Purge(redis, now')
    /\ hist' = IF redis' = redis
                  /\ \A k \in Keys : Standing(redis, k, now) = Standing(redis, k, now')
               THEN Observe(Remembered(hist, redis, now'), NotEnded, redis', inv)
               ELSE Observe(Closed(Remembered(hist, redis, now')), NotEnded, redis', inv)
    /\ UNCHANGED <<inv, cfg, metrics>>

\* every command is answered but the forced overwrite, which may fail
NextOrphan ==
    \/ \E c \in Callers, k \in Keys, h \in Hashes, rem \in RemainingMs :
          SaveInProgress(c, k, h, rem, TRUE)
    \/ \E c \in Callers : ReadExisting(c, TRUE)
    \/ \E c \in Callers : AcquireLock(c, TRUE)
    \/ \E c \in Callers : OverwriteOrphan(c, TRUE)
    \/ \E c \in Callers : OverwriteOrphan(c, FALSE)
    \/ \E c \in Callers : Abandon(c)
    \/ Wait

SpecOrphan == InitOrphan /\ [][NextOrphan]_vars

(* C39  A forced overwrite of K that fails with a transport error leaves   *)
(* K:lock and the orphan as they were.  K:lock goes only when its TTL      *)
(* has run out.  While it is held, a save_in_progress(K) that finds the    *)
(* orphan goes on to the lock and fails there with ItemAlreadyExists,      *)
(* writing nothing; once it is gone, the call takes the lock and its       *)
(* overwrite, unless it fails again, stores its record and returns success.*)

C39_FailedOverwrite ==
    [][/\ \A k \in Keys :
            (redis[LockName(k)].present /\ ~redis'[LockName(k)].present)
            => /\ now' > now
               /\ redis[LockName(k)].exp <= now'
       /\ \A c \in Callers :
            LET k == inv[c].key IN
            /\ (/\ inv[c].pc = "set"
                /\ inv'[c] # inv[c]
                /\ hist'.last.res = RedisError)
               => /\ redis' = redis
                  /\ inv'[c].pc = "idle"
            /\ (/\ inv[c].pc = "set"
                /\ inv'[c] # inv[c]
                /\ hist'.last.res # RedisError)
               => /\ hist'.last.op = "save"
                  /\ hist'.last.res = "Success"
                  /\ redis'[k].val = JsonDumps(inv[c].item)
            /\ (/\ inv[c].pc = "get"
                /\ inv'[c] # inv[c]
                /\ StoredNoDeadline(redis, k))
               => inv'[c].pc = "lock"
            /\ (/\ inv[c].pc = "lock"
                /\ inv'[c] # inv[c])
               => IF redis[LockName(k)].present
                  THEN /\ hist'.last.op = "save"
                       /\ hist'.last.res = "ItemAlreadyExists"
                       /\ inv'[c].pc = "idle"
                       /\ redis' = redis
                  ELSE inv'[c].pc = "set"]_vars

\* the lock was taken twice for the orphan the store started with: the first
\* overwrite failed, and after the lock's TTL a call has overwritten the orphan
C39_Witness ==
    /\ hist.last.op = "save"
    /\ hist.last.via = "recover"
    /\ hist.last.res = "Success"
    /\ hist.last.prev = "foreign"
    /\ hist.saves = 2
    /\ \A c \in Callers : inv[c].pc # "set"
    /\ now >= OrphanLockSeconds * MsPerSec

\* a call has failed on the lock that a failed overwrite left behind
C39_WitnessHeld ==
    /\ hist.last.op = "save"
    /\ hist.last.res = "ItemAlreadyExists"
    /\ hist.lastWrite[hist.last.key] = "foreign"
    /\ hist.saves = 1
    /\ \A c \in Callers : inv[c].pc # "set"
    /\ redis[LockName(hist.last.key)].present

----------------------------------------------------------------------------
(* C40  The record get_record(K) returns for an IN_PROGRESS record has an  *)
(* empty response_data, and for a record written without payload          *)
(* validation an empty payload_hash.                                       *)

\* the record the last get_record returned (the call leaves the store as it is)
ReturnedRecord == GetRecordOutcome(redis, hist.last.key, hist.last.hash).rec

C40_EmptyFields ==
    (/\ hist.last.op = "get"
     /\ hist.last.res = "Record")
    => /\ ReturnedRecord.status = STATUS_INPROGRESS => ReturnedRecord.response_data = ""
       /\ ~cfg.payload_validation_enabled => ReturnedRecord.payload_hash = ""

=============================================================================
